---- MODULE Spec2Model ----
(***************************************************************************)
(* ActivityPubWebViewer: the PHP fetch-resolve-normalize pipeline          *)
(* (Client::fetch, Validator, Note) as a state machine.                    *)
(*                                                                         *)
(* JSON values are tagged records: k = "obj" for an associative array      *)
(* (its keys are the record's other fields), "list" for a JSON list,       *)
(* "str" for a string and "scalar" for a number/boolean.  A string carries *)
(* what the code asks of it: fv (filter_var FILTER_VALIDATE_URL), scheme,  *)
(* host and a path that tells URLs apart.                                  *)
(***************************************************************************)
EXTENDS Integers, Sequences, FiniteSets, TLC

\* ------------------------------------------------------------------ bounds
MaxItems == 2
MaxPostsBound == 2

\* Width of a PHP int in the model (the build's is 64 bits).
IntBits == 7

\* ------------------------------------------------------------- JSON values
Null == [k |-> "null"]
Scalar == [k |-> "scalar"]
BadJson == [k |-> "badjson"]

Url(scheme, host, path) ==
    [k |-> "str", fv |-> TRUE, scheme |-> scheme, host |-> host, path |-> path]

NotUrl(scheme, host, path) ==
    [k |-> "str", fv |-> FALSE, scheme |-> scheme, host |-> host, path |-> path]

List(s) == [k |-> "list", v |-> s]

\* PHP isset($v[key]): a key of an associative array (a JSON null is decoded
\* as a missing key here).  A string or scalar $v has no string keys.
Isset(v, key) == v.k = "obj" /\ key \in DOMAIN v

IsString(v) == v.k = "str"

\* PHP is_array: JSON objects and JSON lists both decode to arrays.
IsArray(v) == v.k \in {"obj", "list"}

\* PHP truthiness of a decoded value, as `if ($v)` and `!$v` use it.
Truthy(v) ==
    CASE v.k = "null" -> FALSE
      [] v.k = "list" -> v.v # <<>>
      [] v.k = "str" -> TRUE
      [] OTHER -> TRUE

\* filter_var($v, FILTER_VALIDATE_URL)
FilterValidateUrl(v) == v.k = "str" /\ v.fv

\* --------------------------------------------------------------- UrlGuard
\* PHP `!$host`: parse_url yields null for a missing host, and the strings
\* "" and "0" are falsy as well.
HostFalsy(host) == host \in {"", "0"}

\* Numeric strings, with their value: PHP's == compares two numeric strings
\* as numbers.
NumericStrings == {"0", "10", "1e1"}

NumericValue(s) == IF s = "0" THEN 0 ELSE 10

LooseEq(a, b) ==
    \/ a = b
    \/ a \in NumericStrings /\ b \in NumericStrings
       /\ NumericValue(a) = NumericValue(b)

\* in_array($needle, $haystack) without the strict flag.
InArray(needle, haystack) == \E e \in haystack : LooseEq(needle, e)

\* strtolower($s) for the strings of the model.
StrToLower(s) ==
    CASE s = "HTTPS" -> "https"
      [] s = "Image" -> "image"
      [] s = "IMAGE" -> "image"
      [] s = "Video" -> "video"
      [] s = "Document" -> "document"
      [] OTHER -> s

DangerousSchemes == {"javascript", "data", "vbscript", "file"}

\* Validator::validateUrl: "OK" or the code of the FetchException thrown.
\* str_starts_with($url, 'https://') is case-sensitive: the scheme as written
\* must be "https".
validateUrl(url, allowed) ==
    IF ~FilterValidateUrl(url) THEN "INVALID_URL"
    ELSE IF url.scheme # "https" THEN "INVALID_URL"
    ELSE IF /\ allowed # {}
            /\ ~InArray("*", allowed)
            /\ (HostFalsy(url.host) \/ ~InArray(url.host, allowed))
         THEN "DOMAIN_NOT_ALLOWED"
    ELSE IF url.scheme # "" /\ StrToLower(url.scheme) \in DangerousSchemes
         THEN "INVALID_URL"
    ELSE "OK"

\* -------------------------------------------------------------- Validator
ValidActorTypes == {"Person", "Service", "Organization", "Application", "Group"}

\* Validator::validateActorObject
validateActorObject(data) ==
    /\ Isset(data, "id") /\ Isset(data, "type") /\ Isset(data, "outbox")
    /\ data.type \in ValidActorTypes
    /\ FilterValidateUrl(data.outbox)

\* Validator::validateNoteObject
validateNoteObject(data) ==
    /\ Isset(data, "type") /\ data.type = "Note"
    /\ Isset(data, "id") /\ data.id # ""
    /\ (Isset(data, "content") \/ Isset(data, "summary"))

ValidCollectionTypes ==
    {"OrderedCollection", "Collection", "OrderedCollectionPage", "CollectionPage"}

\* Mutant of validateOutboxCollection: the type alone decides.
validateOutboxCollectionTypeOnly(data) ==
    /\ Isset(data, "type")
    /\ data.type \in ValidCollectionTypes

\* Validator::validateOutboxCollection
validateOutboxCollection(data) ==
    /\ Isset(data, "type")
    /\ data.type \in ValidCollectionTypes
    /\ (Isset(data, "orderedItems") \/ Isset(data, "items") \/ Isset(data, "first"))

\* ------------------------------------------------------------- exceptions
NoError == [class |-> "none", code |-> "none"]

FetchException(code) == [class |-> "FetchException", code |-> code]

ParseException(code) == [class |-> "ParseException", code |-> code]

\* DateTimeImmutable::__construct throws \Exception on an unparsable string.
DateException == [class |-> "Exception", code |-> "none"]

\* A value of the wrong type for a declared parameter or return type: PHP
\* throws TypeError, which is an Error and not an Exception.
TypeError == [class |-> "TypeError", code |-> "none"]

\* What `catch (Exception $e)` catches.
CaughtAsException(e) ==
    e.class \in {"FetchException", "ParseException", "Exception"}

\* ---------------------------------------------------------------- Fetcher
\* What the remote server does with one GET: a transport failure
\* (curl_errno), or a final status with a body.
NetFail == [errno |-> 1, code |-> 0, body |-> BadJson]

HttpFail == [errno |-> 0, code |-> 404, body |-> BadJson]

Served(body) == [errno |-> 0, code |-> 200, body |-> body]

\* Client::httpGet: the exception thrown (NoError when it returns) and the
\* decoded value.  The declared return type is array.
httpGet(resp) ==
    IF resp.errno # 0
    THEN [thrown |-> FetchException("NETWORK_ERROR"), val |-> Null]
    ELSE IF resp.code < 200 \/ resp.code >= 300
    THEN [thrown |-> FetchException("HTTP_ERROR"), val |-> Null]
    ELSE IF resp.body = BadJson
    THEN [thrown |-> ParseException("JSON_ERROR"), val |-> Null]
    ELSE IF ~IsArray(resp.body)
    THEN [thrown |-> TypeError, val |-> Null]
    ELSE [thrown |-> NoError, val |-> resp.body]

\* ------------------------------------------------------------ NoteBuilder
\* Note::fromArray throws when `published` is not a parsable date.
fromArrayThrows(data) == Isset(data, "published") /\ data.published = "bad"

\* --------------------------------------------------- Note: content and date
\* A string that holds HTML is a sequence of tokens: a tag, or a piece of
\* text `s` written `n` times over.  The text `s` of a token is either one
\* of the characters htmlspecialchars looks at, or free of them.
Tag(name) == [tag |-> name, close |-> FALSE, s |-> "", n |-> 0]

EndTag(name) == [tag |-> name, close |-> TRUE, s |-> "", n |-> 0]

Text(s, n) == [tag |-> "", close |-> FALSE, s |-> s, n |-> n]

Html(tokens) == [k |-> "str", html |-> tokens]

\* $allowedTags of Note::sanitizeContent
AllowedTags ==
    {"p", "br", "a", "strong", "em", "b", "i", "u", "s", "code", "pre",
     "blockquote", "ul", "ol", "li"}

\* The limit of Note::sanitizeContent.
ContentLimit == 10000

\* strip_tags($content, $allowed): the tags that are not allowed go, and
\* what stood between them stays.
strip_tags(content, allowed) ==
    LET Kept(tok) == tok.tag = "" \/ tok.tag \in allowed IN
    SelectSeq(content, Kept)

\* The characters of one token, a tag being no more than its characters once
\* strip_tags has returned a string.
Chars(tok) ==
    IF tok.tag = "" THEN <<[s |-> tok.s, n |-> tok.n]>>
    ELSE <<[s |-> "<", n |-> 1],
           [s |-> (IF tok.close THEN "/" ELSE "") \o tok.tag, n |-> 1],
           [s |-> ">", n |-> 1]>>

\* htmlspecialchars of one character with ENT_QUOTES | ENT_HTML5 and
\* double_encode off: an entity already written is left as it is.
Entity(s) ==
    CASE s = "<" -> "&lt;"
      [] s = ">" -> "&gt;"
      [] s = "&" -> "&amp;"
      [] s = "\"" -> "&quot;"
      [] s = "'" -> "&apos;"
      [] OTHER -> s

\* htmlspecialchars($string, ...): a string as pieces [s, n], `s` written
\* `n` times over.
RECURSIVE htmlspecialchars(_)
htmlspecialchars(str) ==
    IF str = <<>> THEN <<>>
    ELSE LET c == Chars(Head(str)) IN
         [i \in 1..Len(c) |-> [s |-> Entity(c[i].s), n |-> c[i].n]]
         \o htmlspecialchars(Tail(str))

RECURSIVE mb_strlen(_)
mb_strlen(str) ==
    IF str = <<>> THEN 0
    ELSE Len(Head(str).s) * Head(str).n + mb_strlen(Tail(str))

\* mb_substr($str, 0, $length)
RECURSIVE mb_substr(_, _)
mb_substr(str, length) ==
    IF str = <<>> \/ length <= 0 THEN <<>>
    ELSE LET h == Head(str)
             w == Len(h.s)
             whole == Len(h.s) * h.n
         IN  IF whole <= length
             THEN <<h>> \o mb_substr(Tail(str), length - whole)
             ELSE (IF length \div w > 0
                   THEN <<[s |-> h.s, n |-> length \div w]>> ELSE <<>>)
                  \o (IF length % w > 0
                      THEN <<[s |-> SubSeq(h.s, 1, length % w), n |-> 1]>>
                      ELSE <<>>)

\* Mutant of Truncate: the marker is put on a string of exactly the limit.
TruncateAtLimit(sanitized) ==
    IF mb_strlen(sanitized) >= ContentLimit
    THEN mb_substr(sanitized, ContentLimit) \o <<[s |-> "...", n |-> 1]>>
    ELSE sanitized

\* Note::sanitizeContent, the length limit.
Truncate(sanitized) ==
    IF mb_strlen(sanitized) > ContentLimit
    THEN mb_substr(sanitized, ContentLimit) \o <<[s |-> "...", n |-> 1]>>
    ELSE sanitized

\* Note::sanitizeContent
sanitizeContent(content) ==
    Truncate(htmlspecialchars(strip_tags(content, AllowedTags)))

\* Seconds that Asia/Tokyo is ahead of UTC.
TokyoOffset == 32400

\* new DateTimeImmutable($s) for the date strings of the model, in seconds
\* from 2024-01-01T00:00:00Z.
DateTimeImmutable(s) ==
    CASE s = "2024-01-01T00:00:00Z" -> 0
      [] s = "2024-01-01T09:00:00+09:00" -> 0
      [] s = "2023-12-31T23:59:30Z" -> 0 - 30
      [] s = "2024-01-01T15:00:30Z" -> 54030

\* ->setTimezone(new DateTimeZone('Asia/Tokyo'))->format('Y年m月d日 H:i'):
\* the day, the hour and the minute in Tokyo; the seconds are not written.
FormatDate(t) ==
    LET local == t + TokyoOffset IN
    [day |-> local \div 86400, hour |-> (local % 86400) \div 3600,
     minute |-> (local % 3600) \div 60]

\* ------------------------------------------- Note: attachments and author
\* What foreach ($data['attachment'] as $att) goes through: the entries of a
\* list; the members of a single attachment object are strings and numbers,
\* none of which exposes a key.
Entries(v) == IF v.k = "list" THEN v.v ELSE <<>>

\* Mutant of the attachment entry: width and height are carried for every
\* type.
AttachmentSizeForAll(att) ==
    [type |-> StrToLower(att.type), url |-> att.url,
     alt_text |-> IF Isset(att, "name") THEN att.name ELSE "",
     width |-> IF Isset(att, "width") THEN att.width ELSE Null,
     height |-> IF Isset(att, "height") THEN att.height ELSE Null]

\* The entry of $attachments built from one $att.
Attachment(att) ==
    LET type == StrToLower(att.type)
        attachment ==
            [type |-> type, url |-> att.url,
             alt_text |-> IF Isset(att, "name") THEN att.name ELSE ""]
    IN  IF type = "image"
        THEN attachment @@
             [width |-> IF Isset(att, "width") THEN att.width ELSE Null,
              height |-> IF Isset(att, "height") THEN att.height ELSE Null]
        ELSE attachment

\* $attachments of Note::fromArray
Attachments(data) ==
    IF Isset(data, "attachment") /\ IsArray(data.attachment)
    THEN LET e == Entries(data.attachment)
             Exposed(att) == Isset(att, "type") /\ Isset(att, "url")
             kept == SelectSeq(e, Exposed)
         IN  [i \in 1..Len(kept) |-> Attachment(kept[i])]
    ELSE <<>>

UnknownUser == "Unknown User"

\* Mutant of $author: preferredUsername is looked at before name.
AuthorPreferredFirst(data) ==
    IF ~Isset(data, "attributedTo") THEN List(<<>>)
    ELSE LET a == data.attributedTo IN
         IF IsString(a)
         THEN [k |-> "obj", id |-> a, name |-> UnknownUser, avatar |-> Null]
         ELSE IF IsArray(a)
         THEN [k |-> "obj",
               id |-> IF Isset(a, "id") THEN a.id ELSE "",
               name |-> IF Isset(a, "preferredUsername")
                        THEN a.preferredUsername
                        ELSE IF Isset(a, "name") THEN a.name
                        ELSE UnknownUser,
               avatar |-> IF Isset(a, "icon") /\ Isset(a.icon, "url")
                          THEN a.icon.url ELSE Null]
         ELSE List(<<>>)

\* $author of Note::fromArray; the empty array is the empty list.
Author(data) ==
    IF ~Isset(data, "attributedTo") THEN List(<<>>)
    ELSE LET a == data.attributedTo IN
         IF IsString(a)
         THEN [k |-> "obj", id |-> a, name |-> UnknownUser, avatar |-> Null]
         ELSE IF IsArray(a)
         THEN [k |-> "obj",
               id |-> IF Isset(a, "id") THEN a.id ELSE "",
               name |-> IF Isset(a, "name") THEN a.name
                        ELSE IF Isset(a, "preferredUsername")
                        THEN a.preferredUsername
                        ELSE UnknownUser,
               avatar |-> IF Isset(a, "icon") /\ Isset(a.icon, "url")
                          THEN a.icon.url ELSE Null]
         ELSE List(<<>>)

\* Note::fromArray at the instant `now`: the exception it throws (NoError if
\* none) and the Note.  `content` is declared string: an array there is a
\* TypeError.
Note_fromArray(data, now) ==
    LET publishedAt ==
            IF Isset(data, "published") THEN DateTimeImmutable(data.published)
            ELSE now
        originalContent ==
            IF Isset(data, "content") THEN data.content ELSE Html(<<>>)
    IN  IF fromArrayThrows(data)
        THEN [thrown |-> DateException, note |-> Null]
        ELSE IF ~IsString(originalContent)
        THEN [thrown |-> TypeError, note |-> Null]
        ELSE [thrown |-> NoError,
              note |->
                [id |-> IF Isset(data, "id") THEN data.id ELSE "",
                 content |-> originalContent,
                 sanitizedContent |-> sanitizeContent(originalContent.html),
                 publishedAt |-> publishedAt,
                 formattedDate |-> FormatDate(publishedAt),
                 url |-> IF Isset(data, "url") THEN data.url ELSE Null,
                 attachments |-> Attachments(data),
                 author |-> Author(data)]]

\* ------------------------------------------------- NoteBuilder, pipeline
\* Note::fromArray, as far as the pipeline tells Notes apart: id, url and
\* the two contents.
fromArray(data) ==
    LET originalContent ==
            IF Isset(data, "content") THEN data.content ELSE Html(<<>>)
    IN  [id |-> IF Isset(data, "id") THEN data.id ELSE "",
         url |-> IF Isset(data, "url") THEN data.url ELSE Null,
         content |-> originalContent,
         sanitizedContent |-> sanitizeContent(originalContent.html)]

\* ------------------------------------------------------- ActivityResolver
\* The classification branches of Client::processOrderedItems for one item,
\* `resp` being what the server answers if a GET is issued.
\*   get    : the URL a GET is issued for, Null if none
\*   thrown : the exception that leaves the branch uncaught, NoError if none
\*   skip   : the branch ends in `continue`
\*   cand   : $noteObject
Branch(get, thrown, skip, cand) ==
    [get |-> get, thrown |-> thrown, skip |-> skip, cand |-> cand]

ResolveAnnounce(item, resp) ==
    IF IsString(item.object) /\ FilterValidateUrl(item.object)
    THEN LET g == httpGet(resp) IN
         IF g.thrown = NoError
         THEN Branch(item.object, NoError, FALSE,
                     IF Isset(g.val, "type") /\ g.val.type = "Note"
                     THEN g.val ELSE Null)
         ELSE IF CaughtAsException(g.thrown)
         THEN Branch(item.object, NoError, FALSE, Null)
         ELSE Branch(item.object, g.thrown, FALSE, Null)
    ELSE Branch(Null, NoError, FALSE, Null)

ResolveCreate(item, resp) ==
    IF IsArray(item.object)
    THEN Branch(Null, NoError, FALSE, item.object)
    ELSE IF IsString(item.object) /\ FilterValidateUrl(item.object)
    THEN LET g == httpGet(resp) IN
         IF g.thrown = NoError
         THEN Branch(item.object, NoError, FALSE, g.val)
         ELSE IF CaughtAsException(g.thrown)
         THEN Branch(item.object, NoError, FALSE, Null)
         ELSE Branch(item.object, g.thrown, FALSE, Null)
    ELSE Branch(Null, NoError, FALSE, Null)

ResolveUrlItem(item, resp) ==
    LET g == httpGet(resp) IN
    IF g.thrown = NoError
    THEN Branch(item, NoError, FALSE,
                IF /\ Isset(g.val, "type") /\ g.val.type = "Create"
                   /\ Isset(g.val, "object")
                THEN g.val.object ELSE Null)
    ELSE IF CaughtAsException(g.thrown)
    THEN Branch(item, NoError, TRUE, Null)
    ELSE Branch(item, g.thrown, FALSE, Null)

\* Mutant of ResolveItem: any activity with an object is taken for a Create.
ResolveItemAnyActivity(item, resp) ==
    IF Isset(item, "type") /\ item.type = "Announce" /\ Isset(item, "object")
    THEN ResolveAnnounce(item, resp)
    ELSE IF Isset(item, "type") /\ Isset(item, "object")
    THEN ResolveCreate(item, resp)
    ELSE IF Isset(item, "type") /\ item.type = "Note"
    THEN Branch(Null, NoError, FALSE, item)
    ELSE IF IsString(item) /\ FilterValidateUrl(item)
    THEN ResolveUrlItem(item, resp)
    ELSE Branch(Null, NoError, FALSE, Null)

ResolveItem(item, resp) ==
    IF Isset(item, "type") /\ item.type = "Announce" /\ Isset(item, "object")
    THEN ResolveAnnounce(item, resp)
    ELSE IF Isset(item, "type") /\ item.type = "Create" /\ Isset(item, "object")
    THEN ResolveCreate(item, resp)
    ELSE IF Isset(item, "type") /\ item.type = "Note"
    THEN Branch(Null, NoError, FALSE, item)
    ELSE IF IsString(item) /\ FilterValidateUrl(item)
    THEN ResolveUrlItem(item, resp)
    ELSE Branch(Null, NoError, FALSE, Null)

\* The tail of one loop iteration: `if ($noteObject && validateNoteObject(..))`
\* then Note::fromArray, else the item is recorded as unparsed.
\*   thrown : the exception that aborts the loop, NoError if none
\*   parsed : $parsedSuccessfully
\* validateNoteObject(array $data) is given $noteObject as it is.
Accept(cand) ==
    IF ~Truthy(cand) THEN [thrown |-> NoError, parsed |-> FALSE]
    ELSE IF ~IsArray(cand) THEN [thrown |-> TypeError, parsed |-> FALSE]
    ELSE IF ~validateNoteObject(cand) THEN [thrown |-> NoError, parsed |-> FALSE]
    ELSE IF fromArrayThrows(cand) THEN [thrown |-> DateException, parsed |-> FALSE]
    ELSE [thrown |-> NoError, parsed |-> TRUE]

\* Mutants of the early exit: off by one, and never taken.
LoopBreakOffByOne(count, max) == count > max

LoopBreakNever(count, max) == FALSE

\* The loop's early exit: `if ($processedCount >= $maxPosts) break;`
LoopBreak(count, max) == count >= max

\* ----------------------------------------------------------------- inputs
\* Note-shaped objects.
ScriptContent ==
    <<Tag("script"), Text("evil()", 1), EndTag("script"),
      Tag("p"), Text("hi", 1), EndTag("p")>>

NoteContent == Html(ScriptContent)

ValidNote(id) ==
    [k |-> "obj", type |-> "Note", id |-> id, content |-> NoteContent]

NoIdNote == [k |-> "obj", type |-> "Note", id |-> "", content |-> NoteContent]

BadDateNote ==
    [k |-> "obj", type |-> "Note", id |-> "n5", content |-> NoteContent,
     published |-> "bad"]

Article == [k |-> "obj", type |-> "Article", id |-> "a1", content |-> NoteContent]

\* Outbox entries.
Activity(type, object) == [k |-> "obj", type |-> type, object |-> object]

CreateUrl == Activity("Create", Url("https", "good.example", "notes/3"))

AnnounceUrl == Activity("Announce", Url("https", "blocked.example", "notes/6"))

UrlItem == Url("http", "blocked.example", "activities/7")

CoreItems ==
    {Activity("Create", ValidNote("n1")), ValidNote("n2"), CreateUrl,
     Activity("Like", Url("https", "good.example", "notes/8"))}

AllItems ==
    CoreItems \cup
    {Activity("Create", NoIdNote), Activity("Create", BadDateNote),
     Activity("Create", NotUrl("", "", "garbage")),
     AnnounceUrl, Activity("Announce", ValidNote("n9")),
     UrlItem, NotUrl("", "", "garbage"), Scalar,
     [k |-> "obj", type |-> "Create"], [k |-> "obj", type |-> "Announce"]}

\* Item lists of a page: every item shape alone, the core shapes in lists
\* of up to MaxItems.
ItemLists ==
    {<<>>} \cup {<<i>> : i \in AllItems}
    \cup UNION {[1..n -> CoreItems] : n \in 2..MaxItems}

\* What a server may answer to an item's secondary GET.
ItemResponses ==
    {NetFail, HttpFail, Served(BadJson), Served(Scalar),
     Served(ValidNote("n3")), Served(Article),
     Served(Activity("Create", ValidNote("n4"))),
     Served(Activity("Create", Url("https", "good.example", "notes/4")))}

NoResponse == [errno |-> 0, code |-> 0, body |-> Null]

\* An item for which the loop issues a GET.
NeedsGet(item) == ResolveItem(item, NetFail).get # Null

\* The servers' answers to the secondary GETs of a list, one per item.
Worlds(its) ==
    {w \in [1..Len(its) -> ItemResponses \cup {NoResponse}] :
        \A i \in 1..Len(its) :
            IF NeedsGet(its[i]) THEN w[i] \in ItemResponses
            ELSE w[i] = NoResponse}

Page1 == Url("https", "good.example", "outbox?page=1")

Page2 == Url("https", "good.example", "outbox?page=2")

\* A page that carries both lists, and a `first` link.
BothLists(type) ==
    [k |-> "obj", type |-> type, orderedItems |-> List(<<ValidNote("n5")>>),
     items |-> List(<<ValidNote("n6")>>), first |-> Page1]

\* Pages that carry items (a `next` link is there for the code to follow
\* or not).
ItemPages ==
    {BothLists("OrderedCollectionPage")} \cup
    {[k |-> "obj", type |-> "OrderedCollectionPage", orderedItems |-> List(l),
      next |-> Page2] : l \in ItemLists}
    \cup {[k |-> "obj", type |-> "CollectionPage", items |-> List(l)] :
            l \in ItemLists}

\* A page with items that also carries a `first` link.
LinkedItemPage ==
    [k |-> "obj", type |-> "OrderedCollectionPage",
     orderedItems |-> List(<<ValidNote("n2")>>), first |-> Page2]

\* Pages that only link on, by a string or by an object.
LinkPages ==
    {[k |-> "obj", type |-> "OrderedCollectionPage", first |-> Page2],
     [k |-> "obj", type |-> "OrderedCollectionPage",
      first |-> [k |-> "obj", id |-> Page2]]}

BadPages ==
    {[k |-> "obj", type |-> "OrderedCollectionPage"],
     [k |-> "obj", type |-> "Note", orderedItems |-> List(<<>>)]}

\* Pages the validator accepts whose item list is not a list.
OddPages ==
    {[k |-> "obj", type |-> "OrderedCollection",
      orderedItems |-> NotUrl("", "", "garbage")],
     [k |-> "obj", type |-> "Collection", items |-> NotUrl("", "", "garbage")]}

OwnItems == List(<<ValidNote("n2")>>)

\* Outbox collections: items of their own, a `first` link (string, object
\* with id, object without id), or both.
Collections ==
    {[k |-> "obj", type |-> "OrderedCollection", orderedItems |-> List(l)] :
        l \in ItemLists}
    \cup {[k |-> "obj", type |-> "Collection", items |-> List(l)] :
            l \in ItemLists}
    \cup {[k |-> "obj", type |-> "OrderedCollection", first |-> f] :
            f \in {Page1, [k |-> "obj", id |-> Page1],
                   [k |-> "obj", type |-> "OrderedCollectionPage"]}}
    \cup {[k |-> "obj", type |-> "OrderedCollection", first |-> f,
           orderedItems |-> OwnItems] :
            f \in {Page1, [k |-> "obj", id |-> Page1]}}
    \cup {BothLists("OrderedCollection")}
    \cup BadPages \cup OddPages

Failures == {NetFail, HttpFail, Served(BadJson), Served(Scalar)}

GoodOutbox == Url("https", "good.example", "outbox")

Actor(outbox) ==
    [k |-> "obj", id |-> "actor1", type |-> "Person", outbox |-> outbox]

ActorDocs ==
    {Actor(GoodOutbox), Actor(Url("http", "blocked.example", "outbox")),
     Actor(NotUrl("", "", "garbage")),
     [k |-> "obj", id |-> "actor1", type |-> "Person"],
     [k |-> "obj", id |-> "actor1", type |-> "Note", outbox |-> GoodOutbox]}

\* Requests of the pipeline: the actor URL with the client's allowlist.
Requests ==
    {<<Url("https", "good.example", "actor"), {}>>,
     <<Url("https", "good.example", "actor"), {"good.example"}>>,
     <<Url("http", "good.example", "actor"), {}>>,
     <<Url("https", "blocked.example", "actor"), {"good.example"}>>,
     <<NotUrl("https", "good.example", "actor"), {"good.example"}>>}

\* ------------------------------------------------------------------ state
VARIABLES
    pc,               \* the step Client::fetch is at
    actorUrl,         \* $actorUrl
    allowedDomains,   \* $this->allowedDomains
    maxPosts,         \* $maxPosts
    actorJson,        \* $actorJson
    outboxUrl,        \* $outboxUrl
    outboxCollection, \* $outboxCollection
    outboxPage,       \* $outboxPage
    firstPageJson,    \* $firstPageJson of extractNotesFromOutbox
    items,            \* $orderedItems given to processOrderedItems
    world,            \* the servers' answers to the items' GETs
    idx,              \* position of the foreach
    processedCount,   \* $processedCount
    notes,            \* $notes
    unparsed,         \* $debug_unparsed_items
    resolved,         \* what each iteration of the foreach came to, in order
    gets,             \* the HTTP GETs issued so far, in order
    error,            \* the exception Client::fetch ended with
    result,           \* the array Client::fetch returned
    api,              \* api.php: the HTTP request and the response sent
    nb,               \* Note::fromArray called on its own: input, clock, notes
    storage,          \* localStorage: the urlHistory entry, and the saves made
    form,             \* FormHandler: isProcessing, lastSubmittedUrl, the input
    loading,          \* LoadingManager: isLoading, and the fetch button
    sections,         \* which of the loading/error/results sections are shown
    handler,          \* ErrorHandler: lastError, retryCallback, what is shown
    req               \* ApiClient.makeRequest: where it is, and its attempts

\* What stays as it is while Client::fetch runs.
\* The page's modules around ApiClient.makeRequest.
ui == <<form, loading, sections, handler>>

\* The JavaScript front end.
front == <<storage, ui, req>>

\* What lies outside Client::fetch and api.php.
outside == <<nb, front>>

request == <<actorUrl, allowedDomains, maxPosts, api, outside>>

docs == <<actorJson, outboxUrl, outboxCollection, outboxPage, firstPageJson>>

loop == <<items, world, idx, processedCount, notes, unparsed, resolved>>

vars == <<pc, request, docs, loop, gets, error, result>>

\* One entry of `gets`: the URL, the step that issued the GET (and the item's
\* position for a secondary GET), the exception httpGet threw (NoError if
\* none) and the value it returned.
Get(url, role, item, g) ==
    [url |-> url, role |-> role, item |-> item, thrown |-> g.thrown,
     val |-> g.val]

\* The body api.php has sent: `json` tells a JSON document of ErrorResponse
\* from the output of an uncaught error; `message` is the exception whose
\* getMessage() text is shown, NoError for a literal text.
Body(json, success, code, message, data) ==
    [json |-> json, success |-> success, code |-> code, message |-> message,
     data |-> data]

NoBody == Body(FALSE, FALSE, "none", NoError, Null)

\* Client::fetch called directly, not through api.php.
NoApi ==
    [stage |-> "none", method |-> "none", body |-> Null, status |-> 0,
     out |-> NoBody, thrown |-> NoError]

Fresh ==
    /\ actorJson = Null /\ outboxUrl = Null /\ outboxCollection = Null
    /\ outboxPage = Null /\ firstPageJson = Null
    /\ items = <<>> /\ world = <<>> /\ idx = 1 /\ processedCount = 0
    /\ notes = <<>> /\ unparsed = <<>> /\ resolved = <<>>
    /\ gets = <<>> /\ error = NoError /\ result = Null

\* No call of Note::fromArray on its own is under way.
NoLab == [data |-> Null, clock |-> 0, built |-> <<>>]

\* localStorage without a urlHistory entry; no save was made.
NoStorage == [urlHistory |-> <<>>, saved |-> Null, calls |-> 0]

\* The input field as the page is loaded: the empty string.
EmptyInput == NotUrl("", "", "")

\* FormHandler, LoadingManager and ErrorHandler as the page is loaded, the
\* three sections hidden.
FormLoaded ==
    [isProcessing |-> FALSE, lastSubmittedUrl |-> Null, value |-> EmptyInput,
     submitted |-> Null]

LoadingLoaded == [isLoading |-> FALSE, disabled |-> FALSE, spinner |-> FALSE]

SectionsHidden == [loading |-> FALSE, error |-> FALSE, results |-> FALSE]

HandlerLoaded ==
    [lastError |-> Null, retryCallback |-> Null, message |-> Null,
     retryButton |-> FALSE, clicks |-> 0, called |-> <<>>, uncaught |-> 0]

\* No call of ApiClient.makeRequest is under way.
NoRequest ==
    [stage |-> "idle", caller |-> "none", retryCount |-> 0, tries |-> <<>>,
     waits |-> <<>>, out |-> Null]

\* The parts of the program outside Client::fetch and api.php are at rest,
\* but for the part `x`.
ParkedBut(x) ==
    /\ (x = "nb" \/ nb = NoLab)
    /\ (x = "storage" \/ storage = NoStorage)
    /\ (x = "ui"
          \/ (/\ form = FormLoaded /\ loading = LoadingLoaded
              /\ sections = SectionsHidden /\ handler = HandlerLoaded))
    /\ (x \in {"ui", "req"} \/ req = NoRequest)

Detached == ParkedBut("none")

Blank == pc = "validateUrl" /\ Fresh /\ api = NoApi /\ Detached

Init ==
    /\ \E r \in Requests : actorUrl = r[1] /\ allowedDomains = r[2]
    /\ maxPosts \in 1..MaxPostsBound
    /\ Blank

\* Mutant of Throw: the exception is swallowed and the step taken again.
ThrowRetried(e) == UNCHANGED <<pc, error, result>>

\* An exception leaves Client::fetch: nothing is returned.
Throw(e) == pc' = "failed" /\ error' = e /\ UNCHANGED result

\* fetch, step 1: Validator::validateUrl($actorUrl, $this->allowedDomains)
ValidateUrlStep ==
    /\ pc = "validateUrl"
    /\ LET v == validateUrl(actorUrl, allowedDomains) IN
       IF v = "OK"
       THEN pc' = "fetchActor" /\ UNCHANGED <<error, result>>
       ELSE Throw(FetchException(v))
    /\ UNCHANGED <<request, docs, loop, gets>>

\* fetch, steps 2-4: GET the actor, validate it, read its outbox URL.
FetchActor ==
    /\ pc = "fetchActor"
    /\ \E resp \in Failures \cup {Served(d) : d \in ActorDocs} :
         LET g == httpGet(resp)
             outbox == IF Isset(g.val, "outbox") THEN g.val.outbox ELSE Null
         IN  /\ gets' = Append(gets, Get(actorUrl, "actor", 0, g))
             /\ IF g.thrown # NoError
                THEN Throw(g.thrown) /\ UNCHANGED docs
                ELSE IF ~validateActorObject(g.val)
                THEN Throw(ParseException("INVALID_ACTOR")) /\ UNCHANGED docs
                ELSE IF ~Truthy(outbox)
                THEN Throw(ParseException("NO_OUTBOX")) /\ UNCHANGED docs
                ELSE /\ actorJson' = g.val
                     /\ outboxUrl' = outbox
                     /\ pc' = "fetchOutbox"
                     /\ UNCHANGED <<outboxCollection, outboxPage, firstPageJson,
                                    error, result>>
    /\ UNCHANGED <<request, loop>>

\* fetch, step 5: GET the outbox collection; with a string `first` the page
\* is fetched next, otherwise the collection is the page.
FetchOutbox ==
    /\ pc = "fetchOutbox"
    /\ \E resp \in Failures \cup {Served(d) : d \in Collections} :
         LET g == httpGet(resp) IN
             /\ gets' = Append(gets, Get(outboxUrl, "outbox", 0, g))
             /\ IF g.thrown # NoError
                THEN Throw(g.thrown) /\ UNCHANGED docs
                ELSE /\ outboxCollection' = g.val
                     /\ IF Isset(g.val, "first") /\ IsString(g.val.first)
                        THEN pc' = "fetchFirst" /\ UNCHANGED outboxPage
                        ELSE pc' = "validatePage" /\ outboxPage' = g.val
                     /\ UNCHANGED <<actorJson, outboxUrl, firstPageJson,
                                    error, result>>
    /\ UNCHANGED <<request, loop>>

\* Mutant of step 5.1: a failed page fetch falls back to the collection.
FetchFirstPageFallback ==
    /\ pc = "fetchFirst"
    /\ \E resp \in Failures \cup {Served(d) : d \in ItemPages} :
         LET g == httpGet(resp) IN
             /\ gets' = Append(gets, Get(outboxCollection.first, "first", 0, g))
             /\ outboxPage' = IF g.thrown # NoError THEN outboxCollection
                              ELSE g.val
             /\ pc' = "validatePage"
             /\ UNCHANGED <<actorJson, outboxUrl, outboxCollection,
                            firstPageJson, error, result>>
    /\ UNCHANGED <<request, loop>>

\* fetch, step 5.1: GET the page `first` names.
FetchFirstPage ==
    /\ pc = "fetchFirst"
    /\ \E resp \in Failures \cup
                  {Served(d) : d \in ItemPages \cup {LinkedItemPage}
                                    \cup LinkPages \cup BadPages
                                    \cup OddPages} :
         LET g == httpGet(resp) IN
             /\ gets' = Append(gets, Get(outboxCollection.first, "first", 0, g))
             /\ IF g.thrown # NoError
                THEN Throw(g.thrown) /\ UNCHANGED docs
                ELSE /\ outboxPage' = g.val
                     /\ pc' = "validatePage"
                     /\ UNCHANGED <<actorJson, outboxUrl, outboxCollection,
                                    firstPageJson, error, result>>
    /\ UNCHANGED <<request, loop>>

\* fetch, step 5.2: Validator::validateOutboxCollection($outboxPage)
ValidatePage ==
    /\ pc = "validatePage"
    /\ IF validateOutboxCollection(outboxPage)
       THEN pc' = "extract" /\ UNCHANGED <<error, result>>
       ELSE Throw(ParseException("INVALID_NOTE"))
    /\ UNCHANGED <<request, docs, loop, gets>>

\* Mutant of the item source: a `first` link is followed even when the
\* page has items.
ItemSourceFirstWins(page) ==
    IF Isset(page, "first") THEN "first"
    ELSE IF Isset(page, "orderedItems") /\ IsArray(page.orderedItems)
    THEN "orderedItems"
    ELSE IF Isset(page, "items") /\ IsArray(page.items) THEN "items"
    ELSE "none"

\* Mutant of the item source: `items` is looked at before `orderedItems`.
ItemSourceItemsFirst(page) ==
    IF Isset(page, "items") /\ IsArray(page.items) THEN "items"
    ELSE IF Isset(page, "orderedItems") /\ IsArray(page.orderedItems)
    THEN "orderedItems"
    ELSE IF Isset(page, "first") THEN "first"
    ELSE "none"

\* extractNotesFromOutbox: where the items come from.
ItemSource(page) ==
    IF Isset(page, "orderedItems") /\ IsArray(page.orderedItems)
    THEN "orderedItems"
    ELSE IF Isset(page, "items") /\ IsArray(page.items) THEN "items"
    ELSE IF Isset(page, "first") THEN "first"
    ELSE "none"

\* extractNotesFromOutbox: $firstPageUrl
FirstPageUrl(page) ==
    IF IsString(page.first) THEN page.first
    ELSE IF Isset(page.first, "id") THEN page.first.id
    ELSE Null

\* One entry of `resolved`: how the iteration ended ("note": appended to
\* $notes, "unparsed": appended to $debug_unparsed_items, "skipped": left by
\* `continue`) and the $noteObject it had reached.
Outcome(end, cand) == [end |-> end, cand |-> cand]

\* processOrderedItems is entered with the list `its`.
EnterLoop(its) ==
    /\ items' = its
    /\ \E w \in Worlds(its) : world' = w
    /\ UNCHANGED <<idx, processedCount, notes, unparsed, resolved>>

\* extractNotesFromOutbox, the error_log lines at its head: count() of
\* orderedItems or items, which raises a TypeError for what is not an array.
DebugCountThrows(page) ==
    \/ Isset(page, "orderedItems") /\ ~IsArray(page.orderedItems)
    \/ Isset(page, "items") /\ ~IsArray(page.items)

\* extractNotesFromOutbox on the working page, up to its GET if any.
Extract ==
    /\ pc = "extract"
    /\ LET src == ItemSource(outboxPage) IN
       IF DebugCountThrows(outboxPage)
       THEN Throw(TypeError) /\ UNCHANGED loop
       ELSE IF src \in {"orderedItems", "items"}
       THEN /\ pc' = "items" /\ EnterLoop(outboxPage[src].v)
            /\ UNCHANGED <<error, result>>
       ELSE IF src = "first" /\ Truthy(FirstPageUrl(outboxPage))
       THEN pc' = "fetchNested" /\ UNCHANGED <<loop, error, result>>
       ELSE pc' = "items" /\ UNCHANGED <<loop, error, result>>
    /\ UNCHANGED <<request, docs, gets>>

\* extractNotesFromOutbox: GET the page `first` names and take its items.
FetchNestedPage ==
    /\ pc = "fetchNested"
    /\ \E resp \in Failures \cup {Served(d) : d \in ItemPages \cup LinkPages} :
         LET g == httpGet(resp)
             src == ItemSource(g.val)
         IN  /\ gets' = Append(gets, Get(FirstPageUrl(outboxPage), "nested", 0,
                                         g))
             /\ IF g.thrown # NoError
                THEN Throw(g.thrown) /\ UNCHANGED <<docs, loop>>
                ELSE /\ firstPageJson' = g.val
                     /\ pc' = "items"
                     /\ IF src \in {"orderedItems", "items"}
                        THEN EnterLoop(g.val[src].v)
                        ELSE UNCHANGED loop
                     /\ UNCHANGED <<actorJson, outboxUrl, outboxCollection,
                                    outboxPage, error, result>>
    /\ UNCHANGED request

\* Mutant of the loop body: an item whose GET failed is taken up again.
ProcessItemRefetch ==
    /\ pc = "items"
    /\ idx <= Len(items)
    /\ ~LoopBreak(processedCount, maxPosts)
    /\ LET item == items[idx]
           r == ResolveItem(item, world[idx])
           a == Accept(r.cand)
       IN  /\ gets' = IF r.get = Null THEN gets
                      ELSE Append(gets, Get(r.get, "item", idx,
                                            httpGet(world[idx])))
           /\ IF r.thrown # NoError
              THEN /\ Throw(r.thrown)
                   /\ UNCHANGED <<idx, processedCount, notes, unparsed,
                                  resolved>>
              ELSE IF r.skip
              THEN UNCHANGED <<pc, error, result, idx, processedCount, notes,
                               unparsed, resolved>>
              ELSE IF a.thrown # NoError
              THEN /\ Throw(a.thrown)
                   /\ UNCHANGED <<idx, processedCount, notes, unparsed,
                                  resolved>>
              ELSE IF a.parsed
              THEN /\ notes' = Append(notes, fromArray(r.cand))
                   /\ processedCount' = processedCount + 1
                   /\ idx' = idx + 1
                   /\ resolved' = Append(resolved, Outcome("note", r.cand))
                   /\ UNCHANGED <<pc, error, result, unparsed>>
              ELSE /\ unparsed' = Append(unparsed, item)
                   /\ idx' = idx + 1
                   /\ resolved' = Append(resolved,
                                         Outcome("unparsed", r.cand))
                   /\ UNCHANGED <<pc, error, result, processedCount, notes>>
    /\ UNCHANGED <<request, docs, items, world>>

\* One iteration of the foreach of processOrderedItems.
ProcessItem ==
    /\ pc = "items"
    /\ idx <= Len(items)
    /\ ~LoopBreak(processedCount, maxPosts)
    /\ LET item == items[idx]
           r == ResolveItem(item, world[idx])
           a == Accept(r.cand)
       IN  /\ gets' = IF r.get = Null THEN gets
                      ELSE Append(gets, Get(r.get, "item", idx,
                                            httpGet(world[idx])))
           /\ IF r.thrown # NoError
              THEN /\ Throw(r.thrown)
                   /\ UNCHANGED <<idx, processedCount, notes, unparsed,
                                  resolved>>
              ELSE IF r.skip
              THEN /\ idx' = idx + 1
                   /\ resolved' = Append(resolved, Outcome("skipped", r.cand))
                   /\ UNCHANGED <<pc, error, result, processedCount, notes,
                                  unparsed>>
              ELSE IF a.thrown # NoError
              THEN /\ Throw(a.thrown)
                   /\ UNCHANGED <<idx, processedCount, notes, unparsed,
                                  resolved>>
              ELSE IF a.parsed
              THEN /\ notes' = Append(notes, fromArray(r.cand))
                   /\ processedCount' = processedCount + 1
                   /\ idx' = idx + 1
                   /\ resolved' = Append(resolved, Outcome("note", r.cand))
                   /\ UNCHANGED <<pc, error, result, unparsed>>
              ELSE /\ unparsed' = Append(unparsed, item)
                   /\ idx' = idx + 1
                   /\ resolved' = Append(resolved,
                                         Outcome("unparsed", r.cand))
                   /\ UNCHANGED <<pc, error, result, processedCount, notes>>
    /\ UNCHANGED <<request, docs, items, world>>

\* The loop is over (exhausted or early exit): fetch, steps 8-9, returns.
Return ==
    /\ pc = "items"
    /\ (idx > Len(items) \/ LoopBreak(processedCount, maxPosts))
    /\ pc' = "done"
    /\ result' = [posts |-> notes,
                  meta |-> [count |-> Len(notes), actor_url |-> actorUrl,
                            outbox_url |-> outboxUrl],
                  debug_outbox_page |-> outboxPage]
    /\ UNCHANGED <<request, docs, loop, gets, error>>

Next ==
    \/ ValidateUrlStep
    \/ FetchActor
    \/ FetchOutbox
    \/ FetchFirstPage
    \/ ValidatePage
    \/ Extract
    \/ FetchNestedPage
    \/ ProcessItem
    \/ Return

Spec == Init /\ [][Next]_vars

\* --------------------------------------- Validator::validateUrl on its own
UrlHosts == {"good.example", "blocked.example", "0", "10", "1e1"}

UrlInputs ==
    {Url(s, h, "actor") : s \in {"https", "http", "HTTPS", "javascript"},
                          h \in UrlHosts}
    \cup {Url("file", "", "etc/passwd")}
    \cup {NotUrl(s, h, "actor") : s \in {"https", "http"}, h \in UrlHosts}

AllowEntries == {"good.example", "*", "0", "10"}

InitUrl ==
    /\ actorUrl \in UrlInputs
    /\ allowedDomains \in SUBSET AllowEntries
    /\ maxPosts = 1
    /\ Blank

NextUrl == ValidateUrlStep

SpecUrl == InitUrl /\ [][NextUrl]_vars

\* ------------------------------------------------------------------ api.php
PhpIntMin == -(2 ^ (IntBits - 1))

PhpIntMax == 2 ^ (IntBits - 1) - 1

\* The integers a JSON request may carry: json_decode gives an int for those
\* in the int range and a float for the larger ones.
JsonInts == PhpIntMin..(2 * PhpIntMax + 1)

\* (int)$v for a decoded JSON integer: the value itself; for a float beyond
\* the int range PHP leaves the result undefined, and its builds give the
\* value reduced modulo 2^IntBits, zero, or the smallest int.
IntCast(n) ==
    IF n \in PhpIntMin..PhpIntMax THEN {n}
    ELSE {((n - PhpIntMin) % (2 ^ IntBits)) + PhpIntMin, 0, PhpIntMin}

max(a, b) == IF a >= b THEN a ELSE b

min(a, b) == IF a <= b THEN a ELSE b

\* $maxPosts of api.php: the values it may take for a validated request.
MaxPostsOf(body) ==
    {min(max(m, 1), 50) :
        m \in IF Isset(body, "max_posts") THEN IntCast(body.max_posts)
              ELSE {20}}

\* A string of the request, with or without surrounding white space.
Padded(str, pad) == [k |-> "str", str |-> str, pad |-> pad]

trim(s) == s.str

EmptyString == NotUrl("", "", "")

EmptyBody == Null

\* SecurityHandler::validateJsonInput throws (always JSON_ERROR).
validateJsonInputThrows(body) ==
    \/ body.k = "badjson"
    \/ ~Isset(body, "action") \/ ~Isset(body, "actor_url")
    \/ body.action # "fetch_posts"
    \/ ~IsString(body.actor_url)
    \/ trim(body.actor_url) = EmptyString

\* ErrorResponse::output
output(code, message, httpCode) ==
    [status |-> httpCode, out |-> Body(TRUE, FALSE, code, message, Null)]

\* ErrorResponse::fromException
fromException(e) ==
    IF e.class \in {"FetchException", "ParseException"}
    THEN output(e.code, e, 400)
    ELSE output("UNKNOWN_ERROR", e, 500)

\* ErrorResponse::success
success(data) == [status |-> 200, out |-> Body(TRUE, TRUE, "none", NoError, data)]

\* Mutant of Note::toArray: the content is the raw content.
toArrayRaw(note) ==
    [id |-> note.id, content |-> note.content.html, url |-> note.url]

\* Note::toArray, as far as the model tells Notes apart.
toArray(note) ==
    [id |-> note.id, content |-> note.sanitizedContent, url |-> note.url]

\* The catch clauses of api.php.  An Error (TypeError) passes all three: PHP
\* ends the script with an uncaught-error message, under status 500 or 200
\* as display_errors is set.
Caught(e) ==
    IF e.class \in {"FetchException", "ParseException"}
    THEN {fromException(e)}
    ELSE IF CaughtAsException(e)
    THEN {output("UNKNOWN_ERROR", NoError, 500)}
    ELSE {[status |-> st, out |-> NoBody] : st \in {500, 200}}

Respond(r, e) ==
    api' = [api EXCEPT !.stage = "responded", !.status = r.status,
                       !.out = r.out, !.thrown = e]

\* api.php from the request to the call of Client::fetch.
ApiDispatch ==
    /\ api.stage = "received"
    /\ pc = "idle"
    /\ IF api.method # "POST"
       THEN /\ Respond(output("INVALID_REQUEST", NoError, 405), NoError)
            /\ UNCHANGED <<pc, actorUrl, allowedDomains, maxPosts>>
       ELSE IF api.body = EmptyBody
       THEN /\ Respond(output("JSON_ERROR", NoError, 400), NoError)
            /\ UNCHANGED <<pc, actorUrl, allowedDomains, maxPosts>>
       ELSE IF validateJsonInputThrows(api.body)
       THEN /\ \E r \in Caught(ParseException("JSON_ERROR")) :
                  Respond(r, ParseException("JSON_ERROR"))
            /\ UNCHANGED <<pc, actorUrl, allowedDomains, maxPosts>>
       ELSE IF api.body.action = "fetch_posts"
       THEN /\ actorUrl' = trim(api.body.actor_url)
            /\ maxPosts' \in MaxPostsOf(api.body)
            /\ allowedDomains' = {}
            /\ pc' = "validateUrl"
            /\ api' = [api EXCEPT !.stage = "fetching"]
       ELSE /\ Respond(output("INVALID_ACTION", NoError, 400), NoError)
            /\ UNCHANGED <<pc, actorUrl, allowedDomains, maxPosts>>
    /\ UNCHANGED <<docs, loop, gets, error, result, outside>>

\* api.php after Client::fetch: the success response, or a catch clause.
ApiRespond ==
    /\ api.stage = "fetching"
    /\ pc \in {"done", "failed"}
    /\ IF pc = "done"
       THEN Respond(success([posts |-> [i \in 1..Len(result.posts) |->
                                           toArray(result.posts[i])],
                             meta |-> result.meta,
                             debug_outbox_page |-> result.debug_outbox_page,
                             debug_test |-> "THIS_IS_A_TEST_"]),
                    NoError)
       ELSE \E r \in Caught(error) : Respond(r, error)
    /\ UNCHANGED <<pc, actorUrl, allowedDomains, maxPosts, docs, loop, gets,
                   error, result, outside>>

GoodActor == Url("https", "good.example", "actor")

FetchBody(a) == [k |-> "obj", action |-> "fetch_posts", actor_url |-> a]

FetchBodyMax(a, n) ==
    [k |-> "obj", action |-> "fetch_posts", actor_url |-> a, max_posts |-> n]

\* The requests api.php is sent: method and body.  Every max_posts is tried
\* with an actor URL that Client::fetch turns down at once.
ApiRequests ==
    {<<"GET", EmptyBody>>, <<"POST", EmptyBody>>, <<"POST", BadJson>>,
     <<"POST", Scalar>>,
     <<"POST", [k |-> "obj", actor_url |-> Padded(GoodActor, FALSE)]>>,
     <<"POST", [k |-> "obj", action |-> "fetch_posts"]>>,
     <<"POST", [k |-> "obj", action |-> "delete_posts",
                actor_url |-> Padded(GoodActor, FALSE)]>>,
     <<"POST", FetchBody(Scalar)>>,
     <<"POST", FetchBody(Padded(EmptyString, TRUE))>>,
     <<"POST", FetchBody(Padded(GoodActor, TRUE))>>,
     <<"POST", FetchBodyMax(Padded(GoodActor, FALSE), 1)>>,
     <<"POST", FetchBody(Padded(Url("http", "good.example", "actor"), FALSE))>>}
    \cup {<<"POST", FetchBodyMax(Padded(Url("http", "good.example", "actor"),
                                        FALSE), n)>> : n \in JsonInts}

InitApi ==
    /\ \E r \in ApiRequests :
          api = [stage |-> "received", method |-> r[1], body |-> r[2],
                 status |-> 0, out |-> NoBody, thrown |-> NoError]
    /\ actorUrl = Null /\ allowedDomains = {} /\ maxPosts = 0
    /\ pc = "idle"
    /\ Fresh
    /\ Detached

NextApi ==
    \/ ApiDispatch
    \/ ValidateUrlStep
    \/ FetchActor
    \/ FetchOutbox
    \/ FetchFirstPage
    \/ ValidatePage
    \/ Extract
    \/ FetchNestedPage
    \/ ProcessItem
    \/ Return
    \/ ApiRespond

SpecApi == InitApi /\ [][NextApi]_vars

\* ------------------------------------------------- Note::fromArray, inputs
MaxClock == 60
MaxBuilds == 2

NoteBase == [k |-> "obj", type |-> "Note", id |-> "n1"]

\* Contents short enough to be written out.
ShortContents ==
    {<<>>,
     <<Text("hi", 1)>>,
     <<Tag("p"), Text("hi", 1), EndTag("p")>>,
     ScriptContent,
     <<Tag("div"), Tag("b"), Text("x", 2), EndTag("b"), EndTag("div")>>,
     <<Text("&amp;", 1), Text("&", 1), Text("\"", 1), Text("'", 1),
       Text(">", 1)>>}

\* Contents about as long as the limit, before or after the escaping.
LongContents ==
    {<<Text("a", ContentLimit + d)>> : d \in {0 - 1, 0, 1, 50}}
    \cup {<<Text("a", d), Text("&", ContentLimit \div 5)>> : d \in {0, 3}}
    \cup {<<Tag("div"), Text("a", ContentLimit), EndTag("div")>>,
          <<Tag("p"), Text("a", ContentLimit - 9)>>,
          <<Tag("p"), Text("a", ContentLimit - 3)>>,
          <<Text("a", ContentLimit - 1), Text("\"", 1)>>}

Dates ==
    {"2024-01-01T00:00:00Z", "2024-01-01T09:00:00+09:00",
     "2023-12-31T23:59:30Z", "2024-01-01T15:00:30Z", "bad"}

MediaUrl == Url("https", "good.example", "media/1")

AttachmentInputs ==
    {[k |-> "obj", type |-> "Image", url |-> MediaUrl, name |-> "alt",
      width |-> 640, height |-> 480],
     [k |-> "obj", type |-> "IMAGE", url |-> MediaUrl, width |-> 640],
     [k |-> "obj", type |-> "image", url |-> MediaUrl],
     [k |-> "obj", type |-> "Video", url |-> MediaUrl, width |-> 640],
     [k |-> "obj", type |-> "Document", url |-> MediaUrl, name |-> "alt"],
     [k |-> "obj", type |-> "Document"],
     [k |-> "obj", url |-> MediaUrl],
     MediaUrl}

AttachmentValues ==
    {List(<<>>), Scalar,
     [k |-> "obj", type |-> "Image", url |-> MediaUrl]}
    \cup {List(<<a>>) : a \in AttachmentInputs}
    \cup {List(<<a, b>>) : a, b \in AttachmentInputs}

ActorId == Url("https", "good.example", "actor")

AvatarUrl == Url("https", "good.example", "avatar")

AuthorValues ==
    {ActorId, Scalar, List(<<>>),
     [k |-> "obj"],
     [k |-> "obj", id |-> ActorId, name |-> "Alice",
      preferredUsername |-> "alice", icon |-> [k |-> "obj", url |-> AvatarUrl]],
     [k |-> "obj", id |-> ActorId, preferredUsername |-> "alice",
      icon |-> [k |-> "obj"]],
     [k |-> "obj", name |-> "Alice", icon |-> AvatarUrl],
     [k |-> "obj", id |-> ActorId]}

\* The note-shaped objects Note::fromArray is given.
NoteInputs ==
    {NoteBase @@ [content |-> Html(c)] : c \in ShortContents \cup LongContents}
    \cup {NoteBase @@ [content |-> Html(c), published |-> d] :
             c \in {<<Text("hi", 1)>>, ScriptContent}, d \in Dates}
    \cup {NoteBase @@ [content |-> Html(<<Text("hi", 1)>>), attachment |-> a] :
             a \in AttachmentValues}
    \cup {NoteBase @@ [content |-> Html(<<Text("hi", 1)>>),
                       published |-> "2024-01-01T00:00:00Z",
                       attributedTo |-> a] : a \in AuthorValues}
    \cup {NoteBase @@ [summary |-> Html(<<Text("hi", 1)>>)],
          NoteBase @@ [content |-> List(<<>>)]}

\* ------------------------------------------------ Note::fromArray, calls
\* Client::fetch and api.php at rest.
AtRest ==
    /\ pc = "idle" /\ Fresh /\ api = NoApi
    /\ actorUrl = Null /\ allowedDomains = {} /\ maxPosts = 0

pipeline ==
    <<pc, actorUrl, allowedDomains, maxPosts, api, docs, loop, gets, error,
      result>>

InitNote ==
    /\ AtRest
    /\ ParkedBut("nb")
    /\ \E d \in NoteInputs : nb = [data |-> d, clock |-> 0, built |-> <<>>]

\* Half a minute goes by.
NoteTick ==
    /\ nb.data # Null
    /\ nb.clock + 30 <= MaxClock
    /\ nb' = [nb EXCEPT !.clock = @ + 30]
    /\ UNCHANGED <<pipeline, front>>

\* Note::fromArray($data) is called.
BuildNote ==
    /\ nb.data # Null
    /\ Len(nb.built) < MaxBuilds
    /\ nb' = [nb EXCEPT !.built = Append(@, Note_fromArray(nb.data, nb.clock))]
    /\ UNCHANGED <<pipeline, front>>

NextNote == NoteTick \/ BuildNote

SpecNote == InitNote /\ [][NextNote]_vars

\* ------------------------------------------- FormHandler.saveToHistory
MaxSaves == 2

\* The limit of FormHandler.saveToHistory.
HistoryLimit == 10

\* Actor URLs, one more than the history holds.
HistoryUrl(i) == Url("https", "good.example", i)

HistoryUrls == {HistoryUrl(i) : i \in 1..(HistoryLimit + 1)}

\* data.actor_info of a response: with a name, without one, or missing.
ActorInfos == {[k |-> "obj", name |-> "Alice"], [k |-> "obj"], Null}

\* history.findIndex(item => item.url === actorUrl), counted from 1; 0
\* stands for -1.
RECURSIVE findIndex(_, _, _)
findIndex(history, url, from) ==
    IF from > Len(history) THEN 0
    ELSE IF history[from].url = url THEN from
    ELSE findIndex(history, url, from + 1)

\* history.splice(index, 1)
Splice1(history, index) ==
    SubSeq(history, 1, index - 1) \o SubSeq(history, index + 1, Len(history))

\* The entry put at the head: actorInfo?.name || 'Unknown'.
HistoryEntry(url, actorInfo, now) ==
    [url |-> url,
     name |-> IF Isset(actorInfo, "name") THEN actorInfo.name ELSE "Unknown",
     timestamp |-> now]

\* Mutant of saveToHistory: an entry of the same URL is left in the list.
saveToHistoryKeepsOld(history, url, actorInfo, now) ==
    LET added == <<HistoryEntry(url, actorInfo, now)>> \o history IN
    IF Len(added) > HistoryLimit THEN SubSeq(added, 1, HistoryLimit)
    ELSE added

\* FormHandler.saveToHistory: the list that is handed to storage.set.
saveToHistory(history, url, actorInfo, now) ==
    LET existingIndex == findIndex(history, url, 1)
        without == IF existingIndex # 0 THEN Splice1(history, existingIndex)
                   ELSE history
        added == <<HistoryEntry(url, actorInfo, now)>> \o without
    IN  IF Len(added) > HistoryLimit THEN SubSeq(added, 1, HistoryLimit)
        ELSE added

\* The history after the URLs 1..n were saved in that order.
Saved(n) ==
    [i \in 1..n |-> HistoryEntry(HistoryUrl(n + 1 - i), Null, 0)]

InitHistory ==
    /\ AtRest
    /\ ParkedBut("storage")
    /\ \E n \in 0..HistoryLimit :
          storage = [urlHistory |-> Saved(n),
                     saved |-> IF n = 0 THEN Null ELSE HistoryUrl(n),
                     calls |-> 0]

\* One call of saveToHistory.  AppUtils.storage.set writes the list, or
\* catches the exception of localStorage (quota, storage switched off) and
\* leaves the entry as it was.
SaveToHistory ==
    /\ storage.calls < MaxSaves
    /\ \E u \in HistoryUrls, info \in ActorInfos, written \in BOOLEAN :
          LET history == saveToHistory(storage.urlHistory, u, info,
                                       storage.calls + 1)
          IN  storage' =
                IF written
                THEN [urlHistory |-> history, saved |-> u,
                      calls |-> storage.calls + 1]
                ELSE [storage EXCEPT !.calls = @ + 1]
    /\ UNCHANGED <<pipeline, nb, ui, req>>

NextHistory == SaveToHistory

SpecHistory == InitHistory /\ [][NextHistory]_vars

\* ------------------------------------------------- ApiClient.makeRequest
\* ApiClient.config
retryAttempts == 2

retryDelay == 1000

\* s.includes(key)
Includes(s, key) ==
    \E i \in 1..(Len(s) - Len(key) + 1) : SubSeq(s, i, i + Len(key) - 1) = key

\* A JavaScript exception: its name and message.
JsError(name, message) == [k |-> "error", name |-> name, message |-> message]

\* 'user_message' of ErrorResponse::$errorMessages for a code.
UserMessage(code) == "user_message of " \o code

\* The object {error: {code, user_message}} of an error response; makeRequest
\* builds the same shape for its own TIMEOUT_ERROR and NETWORK_ERROR.
ErrorPayload(code) ==
    [k |-> "payload", code |-> code, user_message |-> UserMessage(code)]

\* response.status and response.statusText, as the Error's message has them.
StatusLine(status) ==
    CASE status = 400 -> "400 Bad Request"
      [] status = 405 -> "405 Method Not Allowed"
      [] status = 500 -> "500 Internal Server Error"
      [] status = 502 -> "502 Bad Gateway"
      [] OTHER -> "200 OK"

PostsData ==
    [k |-> "obj", posts |-> List(<<>>),
     actor_info |-> [k |-> "obj", name |-> "Alice"]]

\* What api.php answers: ErrorResponse::success, ErrorResponse::output under
\* its status, or the output of an uncaught error.
ApiPhpAnswers ==
    {success(PostsData), output("INVALID_REQUEST", NoError, 405),
     output("UNKNOWN_ERROR", NoError, 500)}
    \cup {output(c, NoError, 400) : c \in {"INVALID_URL", "HTTP_ERROR"}}
    \cup {[status |-> st, out |-> NoBody] : st \in {500, 200}}

\* What else may answer at ./api.php: an error payload under status 200, a
\* gateway's error page.
OtherAnswers ==
    {[status |-> 200, out |-> Body(TRUE, FALSE, "NO_OUTBOX", NoError, Null)],
     [status |-> 502, out |-> NoBody]}

\* How `await fetch(...)` ends: the timer aborts it, the network fails (the
\* TypeError's message names fetch in some browsers, not in others), or a
\* response arrives.
FetchOutcomes ==
    {[kind |-> "throw", error |-> JsError("AbortError", "The user aborted a request.")],
     [kind |-> "throw", error |-> JsError("TypeError", "Failed to fetch")],
     [kind |-> "throw", error |-> JsError("TypeError", "Load failed")]}
    \cup {[kind |-> "response", response |-> a] :
             a \in ApiPhpAnswers \cup OtherAnswers}

\* How `await response.json()` ends for a response: the parsed document, a
\* SyntaxError, or a network failure while the body is read.
JsonOutcomes(response) ==
    (IF response.out.json
     THEN {[kind |-> "value", value |-> response.out]}
     ELSE {[kind |-> "throw",
            error |-> JsError("SyntaxError", "Unexpected token")]})
    \cup {[kind |-> "throw", error |-> JsError("TypeError", "Failed to fetch")]}

\* makeRequest has settled: it returned `data` or threw `error`.
Returned(r, data) == [r EXCEPT !.stage = "returned", !.out = data]

Thrown(r, e) == [r EXCEPT !.stage = "thrown", !.out = e]

\* The retry branch: the delay if retries are left, else the error is thrown.
RetryOrThrow(r, e) ==
    IF r.retryCount < retryAttempts
    THEN [r EXCEPT !.stage = "delay",
                   !.waits = Append(@, retryDelay * (r.retryCount + 1))]
    ELSE Thrown(r, e)

\* The catch clause of makeRequest.
Catch(r, e) ==
    IF e.k = "error" /\ e.name = "AbortError"
    THEN RetryOrThrow(r, ErrorPayload("TIMEOUT_ERROR"))
    ELSE IF e.k = "error" /\ e.name = "TypeError"
            /\ Includes(e.message, "fetch")
    THEN RetryOrThrow(r, ErrorPayload("NETWORK_ERROR"))
    ELSE Thrown(r, e)

\* makeRequest(data, retryCount) up to `await fetch`.
Started(caller, retryCount, tries, waits) ==
    [stage |-> "fetch", caller |-> caller, retryCount |-> retryCount,
     tries |-> tries, waits |-> waits, out |-> Null]

\* `await fetch` ends; makeRequest runs on to its next await or its end.
FetchSettles ==
    /\ req.stage = "fetch"
    /\ \E o \in FetchOutcomes :
          LET r == [req EXCEPT !.tries = Append(@, o)] IN
          req' =
            IF o.kind = "throw" THEN Catch(r, o.error)
            ELSE IF o.response.status \notin 200..299
            THEN Catch(r, JsError("Error", "HTTP Error: "
                                    \o StatusLine(o.response.status)))
            ELSE [r EXCEPT !.stage = "body"]
    /\ UNCHANGED <<pipeline, nb, storage, ui>>

\* `await response.json()` ends.
BodySettles ==
    /\ req.stage = "body"
    /\ \E o \in JsonOutcomes(req.tries[Len(req.tries)].response) :
          LET r == [req EXCEPT !.tries = Append(@, o)] IN
          req' =
            IF o.kind = "throw" THEN Catch(r, o.error)
            ELSE IF ~o.value.success
            THEN Catch(r, ErrorPayload(o.value.code))
            ELSE Returned(r, o.value.data)
    /\ UNCHANGED <<pipeline, nb, storage, ui>>

\* The delay is over: makeRequest(data, retryCount + 1).
DelayEnds ==
    /\ req.stage = "delay"
    /\ req' = Started(req.caller, req.retryCount + 1, req.tries, req.waits)
    /\ UNCHANGED <<pipeline, nb, storage, ui>>

\* makeRequest called on its own.
InitRequest ==
    /\ AtRest
    /\ ParkedBut("req")
    /\ req = Started("direct", 0, <<>>, <<>>)

NextRequest == FetchSettles \/ BodySettles \/ DelayEnds

SpecRequest == InitRequest /\ [][NextRequest]_vars

\* The timers of makeRequest fire: the abort ends a fetch that has not
\* answered, and a delay ends.  Nothing ends the reading of a body.
SpecRequestFair ==
    SpecRequest /\ WF_vars(FetchSettles) /\ WF_vars(DelayEnds)

\* ------------------------------- LoadingManager, ErrorHandler, PostRenderer
MaxClicks == 2

\* The modules' state as one record, for the handlers that go through
\* several of them.
Page ==
    [form |-> form, loading |-> loading, sections |-> sections,
     handler |-> handler]

Becomes(p) ==
    /\ form' = p.form /\ loading' = p.loading
    /\ sections' = p.sections /\ handler' = p.handler

\* LoadingManager.show: the loading section and the button; error and
\* results sections are hidden.
LoadingManager_show(p) ==
    IF p.loading.isLoading THEN p
    ELSE [p EXCEPT !.loading = [isLoading |-> TRUE, disabled |-> TRUE,
                                spinner |-> TRUE],
                   !.sections = [loading |-> TRUE, error |-> FALSE,
                                 results |-> FALSE]]

\* Mutant of LoadingManager.hide: the button is left as it is.
LoadingManager_hideLeavesButton(p) ==
    IF ~p.loading.isLoading THEN p
    ELSE [p EXCEPT !.loading.isLoading = FALSE, !.sections.loading = FALSE]

\* LoadingManager.hide
LoadingManager_hide(p) ==
    IF ~p.loading.isLoading THEN p
    ELSE [p EXCEPT !.loading = [isLoading |-> FALSE, disabled |-> FALSE,
                                spinner |-> FALSE],
                   !.sections.loading = FALSE]

\* The keys of errorMappings in their order, and the text of each.
ErrorMappingKeys ==
    <<"INVALID_URL", "NETWORK_ERROR", "HTTP_ERROR", "TIMEOUT_ERROR",
      "JSON_ERROR", "INVALID_ACTOR", "NO_OUTBOX", "fetch">>

MappedMessage(key) == "message for " \o key

\* The text shown for what no branch knows.
UnexpectedMessage == "unexpected error"

\* ErrorHandler.getErrorMessageFromCode
RECURSIVE getErrorMessageFromCode(_, _)
getErrorMessageFromCode(errorMessage, from) ==
    IF from > Len(ErrorMappingKeys) THEN UnexpectedMessage
    ELSE IF Includes(errorMessage, ErrorMappingKeys[from])
    THEN MappedMessage(ErrorMappingKeys[from])
    ELSE getErrorMessageFromCode(errorMessage, from + 1)

\* ErrorHandler.formatErrorMessage: the main message and the details line.
formatErrorMessage(e) ==
    IF e.k = "payload"
    THEN [message |-> e.user_message, details |-> e.code]
    ELSE IF e.k = "error"
    THEN [message |-> getErrorMessageFromCode(e.message, 1),
          details |-> e.message]
    ELSE [message |-> UnexpectedMessage, details |-> ""]

\* Mutant of ErrorHandler.show: the other sections are left as they are.
ErrorHandler_showKeepsOthers(p, e, retryCallback) ==
    [p EXCEPT !.handler.lastError = e,
              !.handler.retryCallback = retryCallback,
              !.handler.message = formatErrorMessage(e),
              !.handler.retryButton = (retryCallback # Null),
              !.sections.error = TRUE]

\* ErrorHandler.show(error, retryCallback)
ErrorHandler_show(p, e, retryCallback) ==
    [p EXCEPT !.handler.lastError = e,
              !.handler.retryCallback = retryCallback,
              !.handler.message = formatErrorMessage(e),
              !.handler.retryButton = (retryCallback # Null),
              !.sections = [loading |-> FALSE, error |-> TRUE,
                            results |-> FALSE]]

\* ErrorHandler.hide
ErrorHandler_hide(p) ==
    [p EXCEPT !.sections.error = FALSE,
              !.handler.lastError = Null,
              !.handler.retryCallback = Null]

\* PostRenderer.showResults
showResults(p) ==
    [p EXCEPT !.sections = [loading |-> FALSE, error |-> FALSE,
                            results |-> TRUE]]

\* PostRenderer.clear
clear(p) == [p EXCEPT !.sections.results = FALSE]

\* The errors ErrorHandler.show is handed.
ShownErrors ==
    {ErrorPayload("INVALID_URL"), ErrorPayload("TIMEOUT_ERROR"),
     JsError("Error", "HTTP Error: 400 Bad Request"),
     JsError("TypeError", "Load failed"),
     JsError("SyntaxError", "Unexpected token")}

\* A retry callback: the closure over the URL that was submitted.
Callback(url) == [k |-> "function", url |-> url]

SubmittedUrl == Url("https", "good.example", "users/a")

InitSections ==
    /\ AtRest
    /\ ParkedBut("ui")
    /\ form = FormLoaded /\ loading = LoadingLoaded
    /\ sections = SectionsHidden /\ handler = HandlerLoaded
    /\ req = NoRequest

\* The modules' methods called in any order.
CallLoadingShow ==
    Becomes(LoadingManager_show(Page)) /\ UNCHANGED <<pipeline, nb, storage, req>>

CallLoadingHide ==
    Becomes(LoadingManager_hide(Page)) /\ UNCHANGED <<pipeline, nb, storage, req>>

CallErrorShow ==
    /\ \E e \in ShownErrors, cb \in {Null, Callback(SubmittedUrl)} :
          Becomes(ErrorHandler_show(Page, e, cb))
    /\ UNCHANGED <<pipeline, nb, storage, req>>

CallErrorHide ==
    Becomes(ErrorHandler_hide(Page)) /\ UNCHANGED <<pipeline, nb, storage, req>>

CallShowResults ==
    Becomes(showResults(Page)) /\ UNCHANGED <<pipeline, nb, storage, req>>

CallClear ==
    Becomes(clear(Page)) /\ UNCHANGED <<pipeline, nb, storage, req>>

NextSections ==
    \/ CallLoadingShow
    \/ CallLoadingHide
    \/ CallErrorShow
    \/ CallErrorHide
    \/ CallShowResults
    \/ CallClear

SpecSections == InitSections /\ [][NextSections]_vars

\* ------------------------------------------------------------ FormHandler
\* What the user may have in the input field.
FormInputs ==
    {EmptyInput, SubmittedUrl, Url("https", "good.example", "users/b"),
     Url("http", "good.example", "users/a")}

\* AppUtils.isValidUrl
isValidUrl(v) == v.fv /\ StrToLower(v.scheme) = "https"

\* FormHandler.validateInput(actorUrl).isValid
validateInput(v) == v # EmptyInput /\ isValidUrl(v)

\* Mutant of handleSubmit: isProcessing is not looked at.
handleSubmitAnyTime(p) ==
    LET v == p.form.value IN
    IF ~validateInput(v) \/ v = p.form.lastSubmittedUrl
    THEN [page |-> p, starts |-> FALSE]
    ELSE [page |-> LoadingManager_show(
                      [p EXCEPT !.form.isProcessing = TRUE,
                                !.form.lastSubmittedUrl = v,
                                !.form.submitted = v]),
          starts |-> TRUE]

\* Mutant of handleSubmit: the last submitted URL is not looked at.
handleSubmitNoDuplicateCheck(p) ==
    LET v == p.form.value IN
    IF p.form.isProcessing \/ ~validateInput(v)
    THEN [page |-> p, starts |-> FALSE]
    ELSE [page |-> LoadingManager_show(
                      [p EXCEPT !.form.isProcessing = TRUE,
                                !.form.lastSubmittedUrl = v,
                                !.form.submitted = v]),
          starts |-> TRUE]

\* FormHandler.handleSubmit up to `await ApiClient.fetchPosts`: the page
\* after it, and whether fetchPosts was called.
handleSubmit(p) ==
    LET v == p.form.value IN
    IF p.form.isProcessing \/ ~validateInput(v) \/ v = p.form.lastSubmittedUrl
    THEN [page |-> p, starts |-> FALSE]
    ELSE [page |-> LoadingManager_show(
                      [p EXCEPT !.form.isProcessing = TRUE,
                                !.form.lastSubmittedUrl = v,
                                !.form.submitted = v]),
          starts |-> TRUE]

\* FormHandler.handleRetry(url)
FormHandler_handleRetry(p, url) ==
    LET v == IF url # Null /\ url # EmptyInput THEN url ELSE p.form.value IN
    IF v # EmptyInput
    THEN handleSubmit([p EXCEPT !.form.lastSubmittedUrl = Null])
    ELSE [page |-> p, starts |-> FALSE]

\* ErrorHandler.handleRetry: hide(), then the call of what this.retryCallback
\* holds by then; a call of null is a TypeError that nothing catches.
ErrorHandler_handleRetry(p) ==
    IF p.handler.retryCallback = Null THEN [page |-> p, starts |-> FALSE]
    ELSE LET q == ErrorHandler_hide(p)
             cb == q.handler.retryCallback
         IN  IF cb = Null
             THEN [page |-> [q EXCEPT !.handler.uncaught = @ + 1],
                   starts |-> FALSE]
             ELSE FormHandler_handleRetry(
                     [q EXCEPT !.handler.called = Append(@, cb.url)], cb.url)

\* A settled fetchPosts whose continuation in handleSubmit has not run yet.
Microtask == req.caller = "form" /\ req.stage \in {"returned", "thrown"}

\* The user's events stop after MaxSaves fetches were answered with posts.
UserActs == ~Microtask /\ storage.calls < MaxSaves

Run(r) ==
    /\ Becomes(r.page)
    /\ req' = IF r.starts THEN Started("form", 0, <<>>, <<>>) ELSE req

\* The user edits the input field.  Only handleSubmit reads the field, and
\* it returns at once while isProcessing, so an edit during a request stands
\* for itself and for the same edit made after the request.
TypeUrl ==
    /\ UserActs
    /\ ~form.isProcessing
    /\ \E v \in FormInputs : v # form.value /\ form' = [form EXCEPT !.value = v]
    /\ UNCHANGED <<pipeline, nb, storage, loading, sections, handler, req>>

\* The form's submit event.
Submit ==
    /\ UserActs
    /\ Run(handleSubmit(Page))
    /\ UNCHANGED <<pipeline, nb, storage>>

\* Ctrl+Enter or Cmd+Enter.
Shortcut ==
    /\ UserActs
    /\ IF ~form.isProcessing THEN Run(handleSubmit(Page))
       ELSE UNCHANGED <<ui, req>>
    /\ UNCHANGED <<pipeline, nb, storage>>

\* A click on the retry button while it can be seen.
ClickRetry ==
    /\ UserActs
    /\ sections.error /\ handler.retryButton
    /\ handler.clicks < MaxClicks
    /\ LET r == ErrorHandler_handleRetry(Page) IN
       Run([r EXCEPT !.page.handler.clicks = @ + 1])
    /\ UNCHANGED <<pipeline, nb, storage>>

\* handleSubmit after `await ApiClient.fetchPosts`: the rest of the try
\* block or the catch block, then the finally block.  Of the finished
\* request the record keeps how its last attempt ended.
SubmitSettles ==
    /\ Microtask
    /\ LET finally(p) ==
               [LoadingManager_hide(p) EXCEPT !.form.isProcessing = FALSE,
                                              !.form.submitted = Null]
       IN  IF req.stage = "returned"
           THEN /\ Becomes(finally(showResults(Page)))
                /\ \E written \in BOOLEAN :
                      storage' =
                        IF written
                        THEN [urlHistory |->
                                saveToHistory(storage.urlHistory, form.submitted,
                                              req.out.actor_info,
                                              storage.calls + 1),
                              saved |-> form.submitted,
                              calls |-> storage.calls + 1]
                        ELSE [storage EXCEPT !.calls = @ + 1]
           ELSE /\ Becomes(finally(
                      [ErrorHandler_show(Page, req.out, Callback(form.submitted))
                          EXCEPT !.form.lastSubmittedUrl = Null]))
                /\ UNCHANGED storage
    /\ req' = [req EXCEPT !.stage = "settled", !.retryCount = 0,
                          !.tries = <<req.tries[Len(req.tries)]>>,
                          !.waits = <<>>]
    /\ UNCHANGED <<pipeline, nb>>

\* FormHandler.reset; form.reset() puts the field back to its default, the
\* empty string.
reset(p) ==
    [p EXCEPT !.form.value = EmptyInput, !.form.lastSubmittedUrl = Null,
              !.form.isProcessing = FALSE]

\* A call of FormHandler.reset, made while no handleSubmit is running.
Reset ==
    /\ UserActs
    /\ ~form.isProcessing
    /\ Becomes(reset(Page))
    /\ UNCHANGED <<pipeline, nb, storage, req>>

InitUi == AtRest /\ Detached

NextUi ==
    \/ TypeUrl
    \/ Submit
    \/ Shortcut
    \/ ClickRetry
    \/ FetchSettles
    \/ BodySettles
    \/ DelayEnds
    \/ SubmitSettles
    \/ Reset

SpecUi == InitUi /\ [][NextUi]_vars

\* The timers of makeRequest fire and a settled promise's continuation
\* runs.  Nothing ends the reading of a body.
SpecUiFair ==
    SpecUi /\ WF_vars(FetchSettles) /\ WF_vars(DelayEnds)
           /\ WF_vars(SubmitSettles)

\* ================================================================ claims
Min(a, b) == IF a <= b THEN a ELSE b

\* Item i of the list resolves to a candidate that validates and builds.
Resolves(i) ==
    LET r == ResolveItem(items[i], world[i]) IN
    r.thrown = NoError /\ ~r.skip /\ Accept(r.cand).parsed

GoodIdx == {i \in 1..Len(items) : Resolves(i)}

\* The k-th resolving item, in document order.
KthGood(k) == CHOOSE i \in GoodIdx : Cardinality({j \in GoodIdx : j <= i}) = k

GetsOf(roles) == {i \in 1..Len(gets) : gets[i].role \in roles}

\* C1: when Client::fetch returns, the number of posts is
\* min(maxPosts, number of items of the list that resolve and validate), so
\* at most maxPosts, and the posts are the Notes of the first such items in
\* the order of the list.
C1_NotesCountAndOrder ==
    pc = "done" =>
        LET n == Min(maxPosts, Cardinality(GoodIdx)) IN
        /\ Len(result.posts) = n
        /\ Len(result.posts) <= maxPosts
        /\ \A k \in 1..n :
              result.posts[k] =
                  fromArray(ResolveItem(items[KthGood(k)],
                                        world[KthGood(k)]).cand)

\* C1 witness: a fetch returned from a list with more resolving items than
\* maxPosts, one of them resolved by a secondary GET.
C1_Witness ==
    /\ pc = "done"
    /\ Cardinality(GoodIdx) > maxPosts
    /\ \E i \in GoodIdx : NeedsGet(items[i])

\* C2: once the number of notes has reached maxPosts, no further GET is
\* issued, nothing is appended to the unparsed items and the loop does not
\* advance.
C2_EarlyExit ==
    [][(pc = "items" /\ Len(notes) >= maxPosts) =>
          (gets' = gets /\ unparsed' = unparsed /\ idx' = idx
           /\ notes' = notes)]_vars

\* C2 witness: the fetch returned with maxPosts notes while an item that
\* needs a GET was still ahead in the list.
C2_Witness ==
    /\ pc = "done"
    /\ Len(notes) = maxPosts
    /\ idx <= Len(items)
    /\ NeedsGet(items[idx])

\* C3 (as claimed): Client::fetch never ends with the exception that an
\* item's secondary GET threw, whatever the server answered.
C3_SecondaryFailureNeverAborts ==
    ~ /\ pc = "failed"
      /\ gets # <<>>
      /\ gets[Len(gets)].role = "item"
      /\ gets[Len(gets)].thrown # NoError
      /\ error = gets[Len(gets)].thrown

\* C4 (as claimed): every item the loop has gone through is in exactly one
\* of notes and unparsed items.
C4_EveryItemAccounted ==
    pc \in {"items", "done"} => Len(notes) + Len(unparsed) = idx - 1

\* C5 (as claimed): every URL a GET was issued for passes
\* Validator::validateUrl under the client's allowlist.
C5_EveryGetAuthorized ==
    \A i \in 1..Len(gets) : validateUrl(gets[i].url, allowedDomains) = "OK"

\* C6 (as claimed): validateUrl fails with INVALID_URL for a malformed or
\* non-https URL, with DOMAIN_NOT_ALLOWED for an https URL whose host is not
\* a literal member of a non-empty allowlist without "*", and authorizes an
\* https URL when the allowlist is empty, has "*" or has the host.
C6_ValidateUrlRules ==
    pc # "validateUrl" =>
        LET wellFormed == actorUrl.fv
            https == actorUrl.scheme = "https"
            open == \/ allowedDomains = {}
                    \/ "*" \in allowedDomains
                    \/ actorUrl.host \in allowedDomains
        IN  /\ (~wellFormed \/ ~https) => error = FetchException("INVALID_URL")
            /\ (wellFormed /\ https /\ ~open) =>
                   error = FetchException("DOMAIN_NOT_ALLOWED")
            /\ (wellFormed /\ https /\ open) =>
                   (error = NoError /\ pc = "fetchActor")

\* C7: when the collection's `first` is a URL string and the page fetched
\* from it has an orderedItems list, the only page fetched is that one: one
\* GET for `first`, none for any other page.
C7_FirstPageOnly ==
    (/\ Isset(outboxCollection, "first") /\ IsString(outboxCollection.first)
     /\ Isset(outboxPage, "orderedItems") /\ IsArray(outboxPage.orderedItems))
    => /\ Cardinality(GetsOf({"first", "nested"})) = 1
       /\ \A i \in GetsOf({"first", "nested"}) :
             gets[i].url = outboxCollection.first
       /\ \A i \in 1..Len(gets) :
             Isset(outboxPage, "next") => gets[i].url # outboxPage.next

\* C7 witness: the fetch returned fewer notes than maxPosts from a first
\* page that links to a next page.
C7_Witness ==
    /\ pc = "done"
    /\ Isset(outboxCollection, "first") /\ IsString(outboxCollection.first)
    /\ Isset(outboxPage, "orderedItems") /\ Isset(outboxPage, "next")
    /\ Len(notes) < maxPosts
    /\ Len(items) > 0

\* C8 (as claimed): when the collection's `first` is a URL string or an
\* object with an id, the items the loop runs over come from the page
\* fetched from that link.
C8_FirstLinkIsWorkingPage ==
    (/\ pc \in {"items", "done"}
     /\ Isset(outboxCollection, "first")
     /\ (IsString(outboxCollection.first)
           \/ Isset(outboxCollection.first, "id")))
    => \E i \in GetsOf({"first", "nested"}) :
          gets[i].url = FirstPageUrl(outboxCollection)

\* C9: a fatal error ends Client::fetch where it happens: a failed GET of
\* the actor, outbox or a page is the last GET and its exception is the
\* outcome; with an error there is no result; and after an error nothing
\* changes any more.
C9_FatalStops ==
    /\ [](\A i \in GetsOf({"actor", "outbox", "first", "nested"}) :
            gets[i].thrown # NoError =>
                (i = Len(gets) /\ error = gets[i].thrown))
    /\ [](error # NoError => (result = Null /\ pc = "failed"))
    /\ [][error # NoError => UNCHANGED vars]_vars

\* C9 witness: the fetch failed on the GET of the first page, after the
\* actor and the outbox were fetched.
C9_Witness ==
    /\ pc = "failed"
    /\ Len(gets) = 3
    /\ gets[3].role = "first"
    /\ error = gets[3].thrown
    /\ error # NoError

\* C10 (as claimed): an actor document without an outbox makes
\* Client::fetch fail with NO_OUTBOX.
C10_NoOutboxError ==
    (/\ gets # <<>>
     /\ gets[1].role = "actor"
     /\ gets[1].thrown = NoError
     /\ ~Isset(gets[1].val, "outbox"))
    => error = ParseException("NO_OUTBOX")

\* C11: the working page is judged by its shape alone.  A page whose type is
\* not one of OrderedCollection, Collection, OrderedCollectionPage,
\* CollectionPage, or that has none of orderedItems, items, first, makes
\* Client::fetch fail with INVALID_NOTE before any item is resolved; a page
\* of the right shape passes the step without an error.
PageShapeOk(page) ==
    /\ page.k = "obj"
    /\ "type" \in DOMAIN page
    /\ page.type \in {"OrderedCollection", "Collection",
                      "OrderedCollectionPage", "CollectionPage"}
    /\ {"orderedItems", "items", "first"} \cap DOMAIN page # {}

C11_PageShape ==
    /\ [][pc = "validatePage" =>
            IF PageShapeOk(outboxPage)
            THEN pc' = "extract" /\ error' = NoError
            ELSE /\ pc' = "failed"
                 /\ error' = ParseException("INVALID_NOTE")
                 /\ result' = Null]_vars
    /\ [](error = ParseException("INVALID_NOTE") =>
            /\ pc = "failed" /\ ~PageShapeOk(outboxPage)
            /\ items = <<>> /\ resolved = <<>> /\ notes = <<>>
            /\ GetsOf({"nested", "item"}) = {})

C11_Witness ==
    /\ pc = "failed" /\ error = ParseException("INVALID_NOTE")
    /\ Isset(outboxPage, "type")
    /\ outboxPage.type \in ValidCollectionTypes
    /\ Len(gets) = 3

\* ------------------------------------------- per-item resolution, C12-C17
\* Item i has been taken up by the loop: its iteration is over, or it is the
\* iteration an exception left.
Aborted(i) == pc = "failed" /\ items # <<>> /\ i = idx

Reached(i) == i \in 1..Len(items) /\ (i < idx \/ Aborted(i))

\* The secondary GETs issued for item i.
ItemGets(i) == {j \in 1..Len(gets) : gets[j].role = "item" /\ gets[j].item = i}

FirstGet(i) == gets[CHOOSE j \in ItemGets(i) : \A k \in ItemGets(i) : j <= k]

IsUrlString(v) == v.k = "str" /\ v.fv

HasType(v, t) == v.k = "obj" /\ "type" \in DOMAIN v /\ v.type = t

HasObject(v) == v.k = "obj" /\ "object" \in DOMAIN v

InUnparsed(i) == \E j \in 1..Len(unparsed) : unparsed[j] = items[i]

\* C12: an Announce whose object is a URL string costs one GET; the item
\* becomes a Note exactly when the GET succeeds with a valid object of type
\* Note; a failed GET or another type leaves it in the unparsed items, and
\* the loop goes on.
C12_AnnounceUrl ==
    \A i \in 1..Len(items) :
        (/\ Reached(i) /\ HasType(items[i], "Announce")
         /\ HasObject(items[i]) /\ IsUrlString(items[i].object)) =>
            /\ Cardinality(ItemGets(i)) = 1
            /\ FirstGet(i).url = items[i].object
            /\ ~Aborted(i)
            /\ IF /\ FirstGet(i).thrown = NoError
                  /\ HasType(FirstGet(i).val, "Note")
                  /\ validateNoteObject(FirstGet(i).val)
               THEN resolved[i] = Outcome("note", FirstGet(i).val)
               ELSE resolved[i].end = "unparsed" /\ InUnparsed(i)

\* C13: a Create with an embedded object takes that object as the candidate
\* and issues no GET; a Create with a URL string issues exactly one GET,
\* whose object is the candidate if it succeeds, and the item is unresolved
\* if it fails.
C13_Create ==
    \A i \in 1..Len(items) :
        (Reached(i) /\ HasType(items[i], "Create") /\ HasObject(items[i])) =>
            /\ items[i].object.k = "obj" =>
                  /\ ItemGets(i) = {}
                  /\ i < idx => resolved[i].cand = items[i].object
            /\ IsUrlString(items[i].object) =>
                  /\ Cardinality(ItemGets(i)) = 1
                  /\ FirstGet(i).url = items[i].object
                  /\ ~Aborted(i)
                  /\ IF FirstGet(i).thrown = NoError
                     THEN resolved[i].cand = FirstGet(i).val
                     ELSE resolved[i].end = "unparsed" /\ InUnparsed(i)

\* C14: an item that is a URL string is fetched.  A fetched Create with an
\* embedded object hands that object on as the candidate; a fetched Create
\* whose object is a URL string is resolved like a Create with a URL (the
\* loop goes on, the object's URL being fetched); a caught fetch failure or
\* any other fetched object leaves the item without a Note and the loop goes
\* on.  (A body that is not a JSON object is the case of C3 and is left out
\* here.)
C14_UrlItem ==
    \A i \in 1..Len(items) :
        (/\ Reached(i) /\ IsUrlString(items[i])
         /\ \A j \in ItemGets(i) : gets[j].thrown # TypeError) =>
            LET g == FirstGet(i) IN
            /\ ItemGets(i) # {}
            /\ g.url = items[i]
            /\ IF g.thrown = NoError /\ HasType(g.val, "Create")
                  /\ HasObject(g.val)
               THEN /\ g.val.object.k = "obj" =>
                         i < idx /\ resolved[i].cand = g.val.object
                    /\ IsUrlString(g.val.object) =>
                         /\ ~Aborted(i)
                         /\ \E j \in ItemGets(i) :
                                gets[j].url = g.val.object
               ELSE /\ ~Aborted(i)
                    /\ resolved[i].end \in {"unparsed", "skipped"}

\* C15: an item no classification rule matches (a type other than Announce,
\* Create, Note; an Announce without a URL-string object; a Create whose
\* object is neither a URL string nor embedded; a string that is no URL;
\* anything that is not an object or a string) costs no GET, gives no Note
\* and is recorded in the unparsed items.
Unknown(item) ==
    \/ item.k \notin {"obj", "str"}
    \/ item.k = "str" /\ ~IsUrlString(item)
    \/ /\ item.k = "obj"
       /\ ~HasType(item, "Note")
       /\ ~(/\ HasType(item, "Announce") /\ HasObject(item)
            /\ IsUrlString(item.object))
       /\ ~(/\ HasType(item, "Create") /\ HasObject(item)
            /\ (IsUrlString(item.object)
                \/ item.object.k \in {"obj", "list"}))

C15_UnknownItems ==
    \A i \in 1..Len(items) :
        (Reached(i) /\ Unknown(items[i])) =>
            /\ ItemGets(i) = {}
            /\ ~Aborted(i)
            /\ resolved[i] = Outcome("unparsed", Null)
            /\ InUnparsed(i)
            /\ Len(notes) = Cardinality({j \in 1..Len(resolved) :
                                            resolved[j].end = "note"})

C15_Witness ==
    /\ pc = "done" /\ Len(notes) >= 1
    /\ \E i \in 1..Len(items) :
          /\ i < idx /\ HasType(items[i], "Like") /\ HasObject(items[i])
          /\ IsUrlString(items[i].object)

\* C16: an item costs at most one secondary GET, and the items are taken
\* strictly in document order: a GET for item k is issued only when the
\* k-1 items before it are fully resolved, and the same step finishes item k.
C16_OneGetInOrder ==
    /\ [](\A i \in 1..Len(items) : Cardinality(ItemGets(i)) <= 1)
    /\ [](\A j, k \in GetsOf({"item"}) :
            j < k => gets[j].item < gets[k].item)
    /\ [][\A j \in (Len(gets) + 1)..Len(gets') :
            gets'[j].role = "item" =>
                /\ j = Len(gets) + 1 /\ j = Len(gets')
                /\ gets'[j].item = idx
                /\ Len(resolved) = idx - 1
                /\ \/ idx' = idx + 1 /\ Len(resolved') = idx
                   \/ pc' = "failed"]_vars

C16_Witness ==
    /\ pc = "done" /\ Len(items) >= 2
    /\ Cardinality(GetsOf({"item"})) >= 2

\* C17: nothing is retried.  Each step of Client::fetch and each item issues
\* its GET at most once, a failed GET of a step is the last GET of the
\* invocation, and after a failed GET no later GET is issued by the same
\* step or for the same item.
C17_NoRetry ==
    /\ [](\A j, k \in 1..Len(gets) :
            (gets[j].role = gets[k].role /\ gets[j].item = gets[k].item)
                => j = k)
    /\ [](\A j \in 1..Len(gets) :
            (gets[j].role # "item" /\ gets[j].thrown # NoError)
                => j = Len(gets) /\ pc = "failed")
    /\ [][\A j \in 1..Len(gets) : \A k \in (Len(gets) + 1)..Len(gets') :
            gets[j].thrown # NoError =>
                <<gets'[k].role, gets'[k].item>>
                    # <<gets[j].role, gets[j].item>>]_vars

C17_Witness ==
    /\ pc = "done"
    /\ \E j \in GetsOf({"item"}) :
          /\ gets[j].thrown # NoError
          /\ j < Len(gets)

\* -------------------------------------------------------- api.php, C18-C20
Max(a, b) == IF a >= b THEN a ELSE b

\* C18: the maxPosts handed to Client::fetch is min(max(max_posts, 1), 50)
\* for every integer max_posts of the request and 20 when the request has
\* none, so it always lies in 1..50.
C18_MaxPostsClamped ==
    api.stage \in {"fetching", "responded"} /\ pc # "idle" =>
        /\ maxPosts \in 1..50
        /\ maxPosts = IF "max_posts" \in DOMAIN api.body
                      THEN Min(Max(api.body.max_posts, 1), 50)
                      ELSE 20

\* C19: a FetchException or ParseException raised while a request is served
\* is answered with status 400 and the exception's code; any other failure is
\* answered with status 500, code UNKNOWN_ERROR and a literal message that
\* shows nothing of the failure.
C19_ErrorMapping ==
    api.stage = "responded" /\ api.thrown # NoError =>
        IF api.thrown.class \in {"FetchException", "ParseException"}
        THEN /\ api.status = 400
             /\ api.out.json /\ ~api.out.success
             /\ api.out.code = api.thrown.code
        ELSE /\ api.status = 500
             /\ api.out.json /\ ~api.out.success
             /\ api.out.code = "UNKNOWN_ERROR"
             /\ api.out.message = NoError

\* C20: the success response of api.php carries no debug data: neither the
\* raw outbox page nor the unparsed items.
C20_NoDebugData ==
    api.stage = "responded" /\ api.out.success =>
        /\ "debug_outbox_page" \notin DOMAIN api.out.data
        /\ "debug_unparsed" \notin DOMAIN api.out.data
        /\ "debug_unparsed_items" \notin DOMAIN api.out.data

\* ------------------------------------------------------------ C21 .. C23
\* The Notes that separate calls of Note::fromArray have built.
Built == {j \in 1..Len(nb.built) : nb.built[j].thrown = NoError}

RECURSIVE Rep(_, _)
Rep(s, n) == IF n = 0 THEN "" ELSE s \o Rep(s, n - 1)

\* A string of pieces written out.
RECURSIVE Flat(_)
Flat(str) ==
    IF str = <<>> THEN "" ELSE Rep(Head(str).s, Head(str).n) \o Flat(Tail(str))

\* The i-th character of a string of pieces.
RECURSIVE CharAt(_, _)
CharAt(str, i) ==
    LET h == Head(str)
        whole == Len(h.s) * h.n
        at == ((i - 1) % Len(h.s)) + 1
    IN  IF i <= whole THEN SubSeq(h.s, at, at)
        ELSE CharAt(Tail(str), i - whole)

\* Two strings of pieces are the same string.
SameString(a, b) ==
    /\ mb_strlen(a) = mb_strlen(b)
    /\ \A i \in 1..mb_strlen(a) : CharAt(a, i) = CharAt(b, i)

\* Position of the first closing tag `name` in a content, 0 if none.
RECURSIVE ClosingAt(_, _, _)
ClosingAt(content, name, from) ==
    IF from > Len(content) THEN 0
    ELSE IF content[from].tag = name /\ content[from].close THEN from
    ELSE ClosingAt(content, name, from + 1)

\* What the sanitisation is said to leave: a tag off the whitelist goes
\* together with its contents, a tag on it stays as written, text is escaped.
RECURSIVE WhitelistOnly(_)
WhitelistOnly(content) ==
    IF content = <<>> THEN ""
    ELSE LET tok == Head(content)
             end == ClosingAt(content, tok.tag, 2)
         IN  IF tok.tag = ""
             THEN Rep(Entity(tok.s), tok.n) \o WhitelistOnly(Tail(content))
             ELSE IF tok.tag \in AllowedTags
             THEN "<" \o (IF tok.close THEN "/" ELSE "") \o tok.tag \o ">"
                  \o WhitelistOnly(Tail(content))
             ELSE IF tok.close \/ end = 0 THEN WhitelistOnly(Tail(content))
             ELSE WhitelistOnly(SubSeq(content, end + 1, Len(content)))

\* C21: sanitizeContent removes every tag off the whitelist together with
\* its contents and keeps the whitelisted tags as written, unescaped; the
\* content <script>evil()</script><p>hi</p> becomes exactly <p>hi</p>.
C21_WhitelistKept ==
    \A j \in Built :
        LET content == nb.built[j].note.content.html
            out == nb.built[j].note.sanitizedContent
        IN  /\ content \in ShortContents
               => Flat(out) = WhitelistOnly(content)
            /\ content = ScriptContent => Flat(out) = "<p>hi</p>"

\* The script's text stays and the kept tags are escaped.
C21_Counterexample ==
    /\ Built # {}
    /\ Isset(nb.data, "content")
    /\ nb.data.content = Html(ScriptContent)
    /\ \A j \in Built :
          Flat(nb.built[j].note.sanitizedContent)
              = "evil()&lt;p&gt;hi&lt;/p&gt;"

\* The string Note::sanitizeContent measures: tags stripped, text escaped.
Escaped(j) ==
    htmlspecialchars(strip_tags(nb.built[j].note.content.html, AllowedTags))

\* C22: sanitized content is never longer than 10000 characters and the
\* three of the marker; a sanitized string of more than 10000 characters is
\* cut to its first 10000 characters followed by "...", one of at most 10000
\* characters is left as it is, without a marker.
C22_Truncation ==
    \A j \in Built :
        LET out == nb.built[j].note.sanitizedContent
            esc == Escaped(j)
        IN  /\ mb_strlen(out) <= ContentLimit + 3
            /\ mb_strlen(esc) > ContentLimit
               => /\ mb_strlen(out) = ContentLimit + 3
                  /\ \A i \in 1..ContentLimit : CharAt(out, i) = CharAt(esc, i)
                  /\ \A i \in 1..3 : CharAt(out, ContentLimit + i) = "."
            /\ mb_strlen(esc) <= ContentLimit => SameString(out, esc)
            /\ nb.built[j].note.content.html = <<Text("a", ContentLimit + 50)>>
               => /\ mb_strlen(out) = ContentLimit + 3
                  /\ \A i \in 1..ContentLimit : CharAt(out, i) = "a"

\* Strings longer than, as long as, and shorter than the limit were built.
C22_Witness ==
    /\ Len(nb.built) = MaxBuilds
    /\ Built # {}
    /\ Isset(nb.data, "content")
    /\ nb.data.content.html \in
          {<<Text("a", ContentLimit + 50)>>, <<Text("a", ContentLimit)>>,
           <<Text("a", 3), Text("&", ContentLimit \div 5)>>}

\* C23: Note::fromArray is deterministic: two calls with the same valid
\* note-shaped object, published or not, at different times give the same
\* sanitizedContent, formattedDate, attachments and author.
C23_Deterministic ==
    \A i, j \in Built :
        LET a == nb.built[i].note
            b == nb.built[j].note
        IN  /\ a.sanitizedContent = b.sanitizedContent
            /\ a.formattedDate = b.formattedDate
            /\ a.attachments = b.attachments
            /\ a.author = b.author

\* An object without `published`, built twice a minute apart.
C23_Counterexample ==
    /\ ~Isset(nb.data, "published")
    /\ Built = {1, 2}
    /\ nb.built[1].note.formattedDate # nb.built[2].note.formattedDate
    /\ nb.built[1].note.sanitizedContent = nb.built[2].note.sanitizedContent

\* -------------------------------------------------------------------- C24
\* C24: Client::httpGet has exactly four outcomes: NETWORK_ERROR for a
\* transport failure, else HTTP_ERROR for a final status outside 200..299,
\* else JSON_ERROR for a body that is not valid JSON, else the decoded value
\* is returned; no response makes it fail in any other way.
C24_FourOutcomes ==
    \A j \in 1..Len(gets) :
        /\ gets[j].thrown \in
              {NoError, FetchException("NETWORK_ERROR"),
               FetchException("HTTP_ERROR"), ParseException("JSON_ERROR")}
        /\ gets[j].role = "item"
           => LET resp == world[gets[j].item] IN
              IF resp.errno # 0
              THEN gets[j].thrown = FetchException("NETWORK_ERROR")
              ELSE IF resp.code \notin 200..299
              THEN gets[j].thrown = FetchException("HTTP_ERROR")
              ELSE IF resp.body = BadJson
              THEN gets[j].thrown = ParseException("JSON_ERROR")
              ELSE gets[j].thrown = NoError /\ gets[j].val = resp.body

\* -------------------------------------------------------------------- C30
\* The list a page stands for, by the preference of the claim.
ListOf(page) ==
    IF Isset(page, "orderedItems") THEN page.orderedItems.v
    ELSE IF Isset(page, "items") THEN page.items.v
    ELSE <<>>

\* The target of a page's `first` link: the string, or the id of the object.
FirstTarget(page) ==
    IF IsString(page.first) THEN page.first
    ELSE IF Isset(page.first, "id") THEN page.first.id
    ELSE Null

\* C30: the items processed are the working page's orderedItems if present,
\* else its items, else (the page exposing only `first`) the orderedItems or
\* items of the page fetched from that link, fetched exactly once and never
\* followed further, else none; with orderedItems present, items and first
\* are ignored.
C30_ItemSource ==
    pc \in {"items", "done"} =>
        LET nested == GetsOf({"nested"}) IN
        IF Isset(outboxPage, "orderedItems") \/ Isset(outboxPage, "items")
        THEN items = ListOf(outboxPage) /\ nested = {}
        ELSE IF Isset(outboxPage, "first") /\ FirstTarget(outboxPage) # Null
        THEN /\ Cardinality(nested) = 1
             /\ \A j \in nested :
                   /\ gets[j].url = FirstTarget(outboxPage)
                   /\ gets[j].thrown = NoError
                   /\ items = ListOf(gets[j].val)
                   /\ \A i \in GetsOf({"actor", "outbox", "first", "nested"}) :
                         i <= j
        ELSE items = <<>> /\ nested = {}

\* C30 witness: the fetch returned from a working page that carries
\* orderedItems, items and a first link, or from a linked page that does.
C30_Witness ==
    /\ pc = "done"
    /\ Len(notes) > 0
    /\ \/ /\ Isset(outboxPage, "orderedItems") /\ Isset(outboxPage, "items")
          /\ Isset(outboxPage, "first")
       \/ /\ firstPageJson # Null /\ GetsOf({"nested"}) # {}
          /\ Isset(firstPageJson, "orderedItems")
          /\ Isset(firstPageJson, "first")

\* -------------------------------------------------------------------- C28
\* C28: after any sequence of saveToHistory calls the stored urlHistory has
\* at most 10 entries, no two of them with the same url, and its first entry
\* is the URL saved last (saving a URL again moves it to the front).
C28_History ==
    LET h == storage.urlHistory IN
    /\ Len(h) <= HistoryLimit
    /\ \A i, j \in 1..Len(h) : h[i].url = h[j].url => i = j
    /\ storage.saved # Null => (Len(h) > 0 /\ h[1].url = storage.saved)

\* C28 witness: a full history into which an eleventh URL was saved, and
\* then the URL that stood second once more.
C28_Witness ==
    /\ storage.calls = MaxSaves
    /\ Len(storage.urlHistory) = HistoryLimit
    /\ storage.urlHistory[1].url = HistoryUrl(HistoryLimit)
    /\ storage.urlHistory[2].url = HistoryUrl(HistoryLimit + 1)

\* -------------------------------------------------------------------- C25
\* Entry i of req.tries ended an attempt: anything but a response whose
\* body is still to be read.
EndsAttempt(i) ==
    ~(req.tries[i].kind = "response"
        /\ req.tries[i].response.status \in 200..299)

\* The attempt that entry i ended was followed by a retry.
Retried(i) ==
    EndsAttempt(i) /\ (i < Len(req.tries) \/ req.stage = "delay")

\* What the claim says of the retries made so far.
RetryPolicy ==
    /\ req.retryCount <= retryAttempts
    /\ Len(req.waits) = req.retryCount + (IF req.stage = "delay" THEN 1 ELSE 0)
    /\ \A n \in 1..Len(req.waits) : req.waits[n] = retryDelay * n
    /\ \A i \in 1..Len(req.tries) :
          Retried(i) =>
              /\ req.tries[i].kind = "throw"
              /\ req.tries[i].error.name \in {"AbortError", "TypeError"}
    /\ req.stage = "returned" =>
          /\ req.tries[Len(req.tries)].kind = "value"
          /\ req.out = req.tries[Len(req.tries)].value.data
    /\ (req.stage = "thrown" /\ req.out \in {ErrorPayload("TIMEOUT_ERROR"),
                                             ErrorPayload("NETWORK_ERROR")})
          => req.retryCount = retryAttempts

\* C25: makeRequest retries only on a timeout or a network error, at most
\* retryAttempts = 2 times, waiting retryDelay * n before the n-th retry,
\* never on an HTTP error status or an error payload; and it always ends,
\* returning the data or throwing.
C25_RetryAndEnd ==
    /\ []RetryPolicy
    /\ <>(req.stage \in {"returned", "thrown"})

\* -------------------------------------------------------------------- C29
\* C29: after any sequence of LoadingManager.show/hide, interleaved with
\* ErrorHandler.show/hide and PostRenderer.showResults, the fetch button is
\* disabled and its spinner shown exactly when LoadingManager.isLoading; a
\* repeated show or hide changes nothing.
C29_ButtonInSync ==
    /\ loading.disabled = loading.isLoading
    /\ loading.spinner = loading.isLoading
    /\ LoadingManager_show(LoadingManager_show(Page)) = LoadingManager_show(Page)
    /\ LoadingManager_hide(LoadingManager_hide(Page)) = LoadingManager_hide(Page)

\* C29 witness: an error was shown while LoadingManager was loading, so the
\* loading section is hidden and the button still disabled.
C29_Witness ==
    /\ loading.isLoading /\ loading.disabled
    /\ sections.error /\ ~sections.loading

\* -------------------------------------------------------------------- C26
\* C26: when an error is shown with a retry callback, a click on the retry
\* button hides the error section and invokes the callback exactly once.
C26_RetryInvokes ==
    [][(handler'.clicks = handler.clicks + 1 /\ handler.retryCallback # Null)
         => (/\ ~sections'.error
             /\ Len(handler'.called) = Len(handler.called) + 1)]_vars

\* -------------------------------------------------------------------- C27
\* The last thing fetch gave makeRequest is an error payload of api.php.
LastTry == req.tries[Len(req.tries)]

AnsweredWithPayload ==
    /\ req.tries # <<>>
    /\ LastTry.kind = "response"
    /\ LastTry.response \in ApiPhpAnswers
    /\ LastTry.response.out.json /\ ~LastTry.response.out.success

\* C27: when api.php answers with an error payload of code C, the error that
\* fetchPosts throws is that payload, and the error section shows the user
\* message of C with C in the details.
C27_GranularError ==
    AnsweredWithPayload =>
      /\ req.stage = "thrown" => req.out = ErrorPayload(LastTry.response.out.code)
      /\ (req.stage = "settled" /\ sections.error) =>
            handler.message = [message |-> UserMessage(LastTry.response.out.code),
                               details |-> LastTry.response.out.code]

\* -------------------------------------------------------------------- C38
\* The number of sections that are visible.
Visible ==
    Cardinality({x \in {"loading", "error", "results"} : sections[x]})

\* C38: starting with the loading, error and results sections hidden, after
\* any sequence of LoadingManager.show/hide, ErrorHandler.show/hide and
\* PostRenderer.showResults/clear at most one of the three is visible.
C38_OneSection == Visible <= 1

\* C38 witness: the error section took the place of the loading section
\* while LoadingManager still holds its flag.
C38_Witness ==
    /\ Visible = 1 /\ sections.error
    /\ loading.isLoading /\ handler.lastError # Null

\* -------------------------------------------------------------------- C39
\* C39: a well-formed JSON request whose action is not "fetch_posts" is
\* answered with code INVALID_ACTION under status 400, and Client::fetch is
\* not called for it (no GET is made).
C39_InvalidAction ==
    (/\ api.stage = "responded" /\ api.method = "POST"
     /\ api.body.k = "obj" /\ Isset(api.body, "action")
     /\ api.body.action # "fetch_posts")
    => /\ api.status = 400
       /\ api.out.json /\ ~api.out.success
       /\ api.out.code = "INVALID_ACTION"
       /\ gets = <<>> /\ pc = "idle"

\* -------------------------------------------------------------------- C33
\* The author that the claim gives an attributedTo: for a string, for an
\* object, and for none.
OfString(author, a) ==
    author = [k |-> "obj", id |-> a, name |-> "Unknown User", avatar |-> Null]

OfObject(author, a) ==
    /\ author.k = "obj"
    /\ author.id = (IF "id" \in DOMAIN a THEN a.id ELSE "")
    /\ \/ "name" \in DOMAIN a /\ author.name = a.name
       \/ /\ "name" \notin DOMAIN a /\ "preferredUsername" \in DOMAIN a
          /\ author.name = a.preferredUsername
       \/ /\ "name" \notin DOMAIN a /\ "preferredUsername" \notin DOMAIN a
          /\ author.name = "Unknown User"
    /\ \/ /\ "icon" \in DOMAIN a /\ a.icon.k = "obj" /\ "url" \in DOMAIN a.icon
          /\ author.avatar = a.icon.url
       \/ /\ ~("icon" \in DOMAIN a /\ a.icon.k = "obj" /\ "url" \in DOMAIN a.icon)
          /\ author.avatar = Null

\* C33: the author of a built Note follows the shape of attributedTo: a
\* string gives {id: the string, name: "Unknown User", avatar: null}; an
\* object gives its id, its name or else its preferredUsername or else
\* "Unknown User", and icon.url or null; none gives the empty author.
C33_AuthorShape ==
    \A j \in Built :
        LET author == nb.built[j].note.author IN
        IF "attributedTo" \notin DOMAIN nb.data THEN author = List(<<>>)
        ELSE LET a == nb.data.attributedTo IN
             /\ a.k = "str" => OfString(author, a)
             /\ a.k = "obj" => OfObject(author, a)

\* C33 witness: a Note built from an attributedTo object that has no name
\* and a preferredUsername.
C33_Witness ==
    /\ Built # {}
    /\ "attributedTo" \in DOMAIN nb.data
    /\ nb.data.attributedTo.k = "obj"
    /\ "name" \notin DOMAIN nb.data.attributedTo
    /\ "preferredUsername" \in DOMAIN nb.data.attributedTo
    /\ nb.built[1].note.author.name = nb.data.attributedTo.preferredUsername

\* -------------------------------------------------------------------- C34
\* An entry exposes both type and url.
Exposes(att) == att.k = "obj" /\ {"type", "url"} \subseteq DOMAIN att

\* The place in the list `e` of its j-th entry that exposes both.
PlaceOf(e, j) ==
    CHOOSE i \in 1..Len(e) :
        /\ Exposes(e[i])
        /\ Cardinality({h \in 1..i : Exposes(e[h])}) = j

FailedAtValidCandidate ==
    /\ pc = "failed" /\ idx <= Len(items)
    /\ LET r == ResolveItem(items[idx], world[idx]) IN
       /\ r.thrown = NoError /\ ~r.skip
       /\ Truthy(r.cand) /\ IsArray(r.cand) /\ validateNoteObject(r.cand)

\* C35: building a Note never fails for a candidate that passed
\* validateNoteObject, whatever its optional fields: Client::fetch does not
\* end with an exception at such an item.
C35_BuildNeverFails == ~FailedAtValidCandidate

\* -------------------------------------------------------------------- C31
\* What Validator::validateNoteObject asks of a candidate.
NoteShaped(cand) ==
    /\ cand.k = "obj"
    /\ "type" \in DOMAIN cand /\ cand.type = "Note"
    /\ "id" \in DOMAIN cand /\ cand.id # ""
    /\ ("content" \in DOMAIN cand \/ "summary" \in DOMAIN cand)

\* Client::fetch has ended with an exception while the loop was at an item
\* whose candidate is not Note-shaped.
FailedAtRejectedCandidate ==
    /\ pc = "failed" /\ idx <= Len(items)
    /\ LET r == ResolveItem(items[idx], world[idx]) IN
       /\ r.thrown = NoError /\ ~r.skip
       /\ Truthy(r.cand) /\ ~NoteShaped(r.cand)

\* C31: a candidate becomes a Note only if it has type "Note", a non-empty
\* id and content or summary; a candidate that has not is left unresolved
\* and the loop goes on, it never ends the request; an actor or outbox
\* document that fails its validation ends the request.
C31_NoteValidation ==
    /\ \A j \in 1..Len(resolved) :
          /\ resolved[j].end = "note" => NoteShaped(resolved[j].cand)
          /\ (Truthy(resolved[j].cand) /\ ~NoteShaped(resolved[j].cand))
                => resolved[j].end = "unparsed"
    /\ ~FailedAtRejectedCandidate
    /\ (\E i \in 1..Len(gets) :
           /\ gets[i].role = "actor" /\ gets[i].thrown = NoError
           /\ ~validateActorObject(gets[i].val))
         => (pc = "failed" /\ Len(gets) = 1)
    /\ (outboxPage # Null /\ ~validateOutboxCollection(outboxPage))
         => (pc \in {"validatePage", "failed"} /\ resolved = <<>>)

\* -------------------------------------------------------------------- C32
\* C32: in every success response each post's content is the
\* sanitizedContent of its Note, and meta.count is the number of posts.
C32_SanitizedAndCounted ==
    (api.stage = "responded" /\ api.out.success) =>
        LET data == api.out.data IN
        /\ Len(data.posts) = Len(result.posts)
        /\ \A i \in 1..Len(data.posts) :
              /\ data.posts[i].content = result.posts[i].sanitizedContent
              /\ data.posts[i].content =
                    sanitizeContent(result.posts[i].content.html)
        /\ data.meta.count = Len(data.posts)

\* C32 witness: a success response with two posts whose raw content has a
\* script element that the content in the response has not.
C32_Witness ==
    /\ api.stage = "responded" /\ api.out.success
    /\ Len(api.out.data.posts) = 2
    /\ api.out.data.meta.count = 2
    /\ \A i \in 1..2 :
          /\ \E t \in 1..Len(result.posts[i].content.html) :
                result.posts[i].content.html[t].tag = "script"
          /\ Flat(api.out.data.posts[i].content) = "evil()&lt;p&gt;hi&lt;/p&gt;"

\* -------------------------------------------------------------------- C36
\* A request of the form is in flight.
InFlight ==
    req.caller = "form"
    /\ req.stage \in {"fetch", "body", "delay", "returned", "thrown"}

\* handleSubmit calls ApiClient.fetchPosts in this step.
FetchPostsCalled ==
    /\ req' = Started("form", 0, <<>>, <<>>)
    /\ req # req'

\* C36, the safety half: fetchPosts is called only while isProcessing is
\* false and no request is in flight, and while one is in flight
\* isProcessing is true.
C36_OneInFlight ==
    /\ [](InFlight => form.isProcessing)
    /\ [][FetchPostsCalled => (~form.isProcessing /\ ~InFlight)]_vars

\* C36: at most one request is in flight under any interleaving of submits,
\* shortcuts and retries, and every handleSubmit that set isProcessing
\* resets it and hides the loading state in the end, whether the request
\* succeeds or fails.
C36_OneInFlightAndReleased ==
    /\ C36_OneInFlight
    /\ (form.isProcessing ~> (~form.isProcessing /\ ~loading.isLoading))

\* -------------------------------------------------------------------- C37
\* The last request of the form has ended, with posts or with an error.
Succeeded == req.caller = "form" /\ req.stage = "settled" /\ req.out.k = "obj"

Failed ==
    req.caller = "form" /\ req.stage = "settled"
    /\ req.out.k \in {"error", "payload"}

\* A submission of the URL in the field would get as far as the duplicate
\* check.
Submittable == ~form.isProcessing /\ validateInput(form.value)

\* The steps that take a set lastSubmittedUrl away or change it.
ForgetsLast ==
    /\ form.lastSubmittedUrl # Null
    /\ form'.lastSubmittedUrl # form.lastSubmittedUrl

\* C37: a submission of u is skipped exactly when u is lastSubmittedUrl;
\* after a failed submission lastSubmittedUrl is cleared; after a
\* successful submission of u it stays u, and re-submitting u issues no
\* request, until a different URL is submitted or reset() is called.
C37_DuplicateRule ==
    /\ [](Submittable =>
            (handleSubmit(Page).starts <=> form.value # form.lastSubmittedUrl))
    /\ [](Failed => (form.lastSubmittedUrl = Null
                      /\ (Submittable => handleSubmit(Page).starts)))
    /\ [][(req.stage = "returned" /\ req'.stage = "settled")
            => (/\ form'.lastSubmittedUrl = form.submitted
                /\ form'.lastSubmittedUrl # Null
                /\ ~(handleSubmit(Page).starts)')]_vars
    /\ [][ForgetsLast =>
            \/ /\ FetchPostsCalled
               /\ form'.lastSubmittedUrl = form.value
            \/ form' = reset(Page).form
            \/ req.stage = "thrown" /\ req'.stage = "settled"]_vars

\* C37 witness: a URL was fetched with success, is in the field again, and
\* a submission of it would be skipped.
C37_Witness ==
    /\ Succeeded /\ Submittable
    /\ form.value = form.lastSubmittedUrl
    /\ ~handleSubmit(Page).starts
    /\ storage.calls = 1

====
